---- MODULE Spec2Model ----
(***************************************************************************)
(* vSMTP: the SMTP receiver of one connection (vsmtp-protocol receiver,    *)
(* reader and writer; vsmtp-server receiver handler) and the queue         *)
(* pipeline behind it (working, delivery and deferred processes).          *)
(*                                                                         *)
(* Spec  : one client connection, from accept to close.                    *)
(* SpecQ : the queue pipeline, fed by completed transactions.              *)
(***************************************************************************)
EXTENDS Integers, Sequences, FiniteSets, Bags, TLC

(* ----------------------------- bounds --------------------------------- *)

\* Lines a client sends on one connection.
MaxLines == 6

\* Lines one read of the socket returns (the size of a pipelined batch).
MaxBatch == 3

\* Recipients in the delivery map of one context.
MaxRcpt == 2

\* handle_one tasks of the working, delivery and deferred processes in flight
\* at the same time.
MaxTasks == 2

(* ------------------------- configuration ------------------------------ *)

\* config.server.smtp.error.soft_count / hard_count of the modelled server.
ThresholdSoftError == 2

ThresholdHardError == 3

\* config.server.smtp.rcpt_count_max of the modelled server.
RcptCountMax == 2

\* config.server.message_size_limit, in body lines.
MessageSizeMax == 2

\* config.server.queues.working.channel_size / delivery.channel_size of the
\* modelled server.
WorkingChannelSize == 1

DeliveryChannelSize == 1

\* held_back_max: the errors after which a held back recipient is failed.
HeldBackMax == 3

\* The server has a rustls configuration (STARTTLS is offered).
HasRustlsConfig == TRUE

\* config.server.esmtp.auth is Some.
HasAuthConfig == FALSE

(* ------------------------------ stages -------------------------------- *)

StageConnect == 0

StageHelo == 1

StageMailFrom == 2

StageRcptTo == 3

StageFinished == 4

(* --------------------------- input lines ------------------------------ *)

\* The lines a client may send, each ended by CRLF.  "RCPT" names a recipient
\* of another domain, "RCPTI" one of the sender's own (handled) domain,
\* "TEXT" is a line of text that is no SMTP verb, "DOT" the line ".", and
\* "LONG" a line of MAX_LINE_SIZE bytes or more.
Lines ==
    {"HELO", "EHLO", "MAIL", "RCPT", "RCPTI", "DATA", "QUIT", "RSET", "NOOP",
     "STARTTLS", "AUTH", "TEXT", "DOT", "LONG"}

\* Reader::parse_command_line: a line of MAX_LINE_SIZE bytes or more is an
\* error carrying ParseArgsError::BufferTooLong; otherwise the verb is found
\* by prefix, and a line starting with no verb is Verb::Unknown.
ParseCommandLine(line) ==
    CASE line = "LONG" -> "BufferTooLong"
      [] line = "HELO" -> "Helo"
      [] line = "EHLO" -> "Ehlo"
      [] line = "MAIL" -> "MailFrom"
      [] line \in {"RCPT", "RCPTI"} -> "RcptTo"
      [] line = "DATA" -> "Data"
      [] line = "QUIT" -> "Quit"
      [] line = "RSET" -> "Rset"
      [] line = "NOOP" -> "Noop"
      [] line = "STARTTLS" -> "StartTls"
      [] line = "AUTH" -> "Auth"
      [] OTHER -> "Unknown"

\* Verb::is_bufferable.
IsBufferable(verb) == verb \notin {"Ehlo", "Data", "Quit", "Noop"}

(* ------------------------------ replies ------------------------------- *)

\* A reply: its code, the codes of the replies appended to it (extended), and
\* the index of the input line it answers.
MkReply(code, seq) == [code |-> code, ext |-> <<>>, seq |-> seq]

NoReply == [code |-> 0, ext |-> <<>>, seq |-> 0]

\* Reply::extended: the lines of other are appended, the code stays.
Extended(reply, other) ==
    [reply EXCEPT !.ext = reply.ext \o <<other.code>> \o other.ext]

\* ReplyCode::is_error: 4yz and 5yz.
IsError(reply) == reply.code >= 400

(* ---------------------- the receiver of a connection ------------------- *)

\* Receiver::new with the handler on_accept builds: error_count 0, no outcome,
\* an empty reply buffer, a context in stage Connect.  The fields:
\*   rstate       where the connection task stands
\*   stage .. idlv  the handler's contexts: the stage of the main context, its
\*                forward_paths (fwd) and delivery entries (dlv), and
\*                state_internal (int) with its own fwd and dlv
\*   helo         the HeloProperties of the context: none, or the client name
\*                given with HELO (using_deprecated) or with EHLO
\*   secured      the context holds TlsProperties
\*   tls          the receiver is the one upgrade_tls built, over TLS
\*   sinkbuf      WindowWriter.buffer
\*   outcome      ReceiverContext.outcome
\*   error_count  ErrorCounter.error_count
\*   size         the size counted by as_message_stream
\*   cur, ln      the input line at hand and its index on the connection
\*   more, nb     Reader.buffer holds further lines of the same read; the
\*                number of lines taken from that read
\*   verb, at     the verb parsed from cur and the stage get_stage returned
\*                when cur was dispatched
\*   pend         the reply the handler gave
\*   out          what the last step wrote to the socket, in order
\*   wseq, xseq   index of the line answered by the last reply written, and
\*                of the last line dispatched as a command
\*   denied       the rules have answered Deny for a message of the connection
NewReceiver ==
    [rstate |-> "accept", stage |-> StageConnect, fwd |-> 0, dlv |-> 0,
     int |-> FALSE, ifwd |-> 0, idlv |-> 0, secured |-> FALSE,
     sinkbuf |-> <<>>, outcome |-> "None", error_count |-> 0, size |-> 0,
     cur |-> "NOOP", ln |-> 0, more |-> FALSE, nb |-> 0,
     verb |-> "Noop", at |-> StageConnect, pend |-> NoReply, out |-> <<>>,
     wseq |-> 0, xseq |-> 0, denied |-> FALSE, helo |-> "none", tls |-> FALSE]

\* A panic of the connection task (expect on an Err, todo!, unreachable!).
Panic(c) == [c EXCEPT !.rstate = "panicked"]

\* The reply a handler callback returns, answering the line at hand.
WithReply(c, code) == [c EXCEPT !.pend = MkReply(code, c.ln)]

\* ReceiverContext::deny.
Deny(c) == [c EXCEPT !.outcome = "Quit"]

(* ------------------------------ writer -------------------------------- *)

\* Handler::on_hard_error.
OnHardError(c, reply) ==
    [Deny(c) EXCEPT !.pend = Extended(reply, MkReply(451, reply.seq))]

\* Handler::on_soft_error: the reply is delayed, not changed.
OnSoftError(c, reply) == [c EXCEPT !.pend = reply]

\* A handle_error that counts no error.
HandleErrorNoCount(c, reply) == [c EXCEPT !.pend = reply]

\* WindowWriter::handle_error; the final reply is left in pend.
HandleError(c, reply) ==
    IF ~IsError(reply)
    THEN [c EXCEPT !.pend = reply]
    ELSE LET c1 == [c EXCEPT !.error_count = @ + 1]
         IN  IF ThresholdHardError # -1 /\ c1.error_count >= ThresholdHardError
             THEN OnHardError(c1, reply)
             ELSE IF ThresholdSoftError # -1
                     /\ c1.error_count >= ThresholdSoftError
                  THEN OnSoftError(c1, reply)
                  ELSE [c1 EXCEPT !.pend = reply]

\* WindowWriter::write_all: the replies reach the socket.
WriteAll(c, replies) ==
    IF replies = <<>>
    THEN c
    ELSE [c EXCEPT !.out = @ \o replies, !.wseq = replies[Len(replies)].seq]

\* WindowWriter::flush.
Flush(c) == [WriteAll(c, c.sinkbuf) EXCEPT !.sinkbuf = <<>>]

\* WindowWriter::direct_send_reply.
DirectSendReply(c, reply) ==
    LET c1 == HandleError(c, reply) IN WriteAll(c1, <<c1.pend>>)

\* WindowWriter::send_reply.
SendReply(c, reply, verb) ==
    LET c1 == HandleError(c, reply)
    IN  IF IsBufferable(verb)
        THEN WriteAll(IF c1.sinkbuf # <<>> THEN Flush(c1) ELSE c1, <<c1.pend>>)
        ELSE [c1 EXCEPT !.sinkbuf = Append(@, c1.pend)]

(* -------------------------- handler callbacks ------------------------- *)

\* A reset that takes every stage to Helo, Connect included.
ResetToHelo(c) == [c EXCEPT !.stage = StageHelo, !.fwd = 0, !.dlv = 0]

\* Context::reset: Connect stays Connect, every other stage becomes Helo.
Reset(c) ==
    IF c.stage = StageConnect
    THEN c
    ELSE [c EXCEPT !.stage = StageHelo, !.fwd = 0, !.dlv = 0]

\* Context::to_helo: Ok in Connect and Helo, Err afterwards.
ToHeloOk(stage) == stage \in {StageConnect, StageHelo}

\* Handler::on_ehlo (on_ehlo_inner): to_helo(..).expect("bad state"), then
\* the Helo rules, which answer Next.
OnEhlo(c) ==
    IF ToHeloOk(c.stage)
    THEN WithReply([c EXCEPT !.stage = StageHelo, !.helo = "ehlo"], 250)
    ELSE Panic(c)

\* Handler::on_helo (on_helo_inner): the same with using_deprecated set.
OnHelo(c) ==
    IF ToHeloOk(c.stage)
    THEN WithReply([c EXCEPT !.stage = StageHelo, !.helo = "helo"], 250)
    ELSE Panic(c)

\* Handler::on_noop.
OnNoop(c) == WithReply(c, 250)

\* Handler::on_rset.
OnRset(c) ==
    WithReply([Reset(c) EXCEPT !.int = FALSE, !.ifwd = 0, !.idlv = 0], 250)

\* Handler::on_starttls (on_starttls_inner).
OnStartTls(c) ==
    IF c.secured
    THEN WithReply(c, 554)
    ELSE IF HasRustlsConfig
         THEN WithReply([c EXCEPT !.outcome = "UpgradeTLS"], 220)
         ELSE WithReply(c, 454)

\* Handler::on_auth (on_auth_inner).
OnAuth(c) ==
    IF HasAuthConfig
    THEN [c EXCEPT !.outcome = "Authenticate", !.pend = NoReply]
    ELSE WithReply(c, 502)

\* Handler::on_mail_from: Context::to_mail_from, then the MailFrom rules,
\* which answer Next.
OnMailFrom(c) ==
    IF c.stage = StageHelo
    THEN WithReply([c EXCEPT !.stage = StageMailFrom, !.fwd = 0, !.dlv = 0], 250)
    ELSE IF c.stage = StageMailFrom THEN WithReply(c, 250) ELSE Panic(c)

\* Context::add_forward_path on the main context.
AddForwardPath(c) ==
    IF c.stage = StageMailFrom
    THEN [c EXCEPT !.stage = StageRcptTo, !.fwd = 1, !.dlv = 1]
    ELSE [c EXCEPT !.fwd = @ + 1, !.dlv = @ + 1]

\* Context::set_transaction_type on the main context.
SetTransactionType(c) ==
    IF c.stage = StageMailFrom
    THEN [c EXCEPT !.stage = StageRcptTo, !.fwd = 0, !.dlv = 0]
    ELSE c

\* The Internal branch of on_rcpt_to: state_internal is a clone of the main
\* context with a new message id and its forward_paths cleared (the delivery
\* entries are kept), then the recipient is added to it.
AddInternal(c) ==
    LET c1 == IF c.int
              THEN c
              ELSE [c EXCEPT !.int = TRUE, !.ifwd = 0,
                             !.idlv = IF c.stage = StageRcptTo THEN c.dlv ELSE 0]
    IN  SetTransactionType([c1 EXCEPT !.ifwd = @ + 1, !.idlv = @ + 1])

\* Handler::on_rcpt_to; the RcptTo rules answer Next.
OnRcptTo(c) ==
    IF c.fwd >= RcptCountMax
    THEN WithReply(c, 452)
    ELSE IF c.cur = "RCPTI"
         THEN WithReply(AddInternal(c), 250)
         ELSE WithReply(SetTransactionType(AddForwardPath(c)), 250)

\* ReceiverHandler::on_data.
OnData(c) == WithReply(c, 354)

\* ReceiverHandler::on_quit.
OnQuit(c) == WithReply(c, 221)

\* ReceiverHandler::on_unknown.
OnUnknown(c) == WithReply(c, 500)

\* ReceiverHandler::on_args_error.
OnArgsError(c) == WithReply(c, 500)

\* ReceiverHandler::on_bad_sequence.
OnBadSequence(c) == WithReply(c, 503)

(* --------------------------- smtp_handshake --------------------------- *)

\* A dispatch table that hands DATA to its callback in stage MailFrom too.
InSequenceDataEarly(verb, stage) ==
    CASE verb \in {"StartTls", "Auth"} -> stage \in {StageConnect, StageHelo}
      [] verb = "MailFrom" -> stage \in {StageHelo, StageMailFrom}
      [] verb = "RcptTo" -> stage \in {StageMailFrom, StageRcptTo}
      [] verb = "Data" -> stage \in {StageMailFrom, StageRcptTo}
      [] OTHER -> TRUE

\* The stages in which smtp_handshake hands a verb to its callback; in any
\* other stage the command goes to on_bad_sequence.
InSequence(verb, stage) ==
    CASE verb \in {"StartTls", "Auth"} -> stage \in {StageConnect, StageHelo}
      [] verb = "MailFrom" -> stage \in {StageHelo, StageMailFrom}
      [] verb = "RcptTo" -> stage \in {StageMailFrom, StageRcptTo}
      [] verb = "Data" -> stage = StageRcptTo
      [] OTHER -> TRUE

\* The match on (verb, stage) of smtp_handshake.
SmtpDispatch(c) ==
    IF ~InSequence(c.verb, c.stage)
    THEN OnBadSequence(c)
    ELSE CASE c.verb = "Helo" -> OnHelo(c)
           [] c.verb = "Ehlo" -> OnEhlo(c)
           [] c.verb = "Noop" -> OnNoop(c)
           [] c.verb = "Rset" -> OnRset(c)
           [] c.verb = "StartTls" -> OnStartTls(c)
           [] c.verb = "Auth" -> OnAuth(c)
           [] c.verb = "MailFrom" -> OnMailFrom(c)
           [] c.verb = "RcptTo" -> OnRcptTo(c)
           [] c.verb = "Data" -> OnData([c EXCEPT !.outcome = "Message"])
           [] c.verb = "Quit" -> OnQuit([c EXCEPT !.outcome = "Quit"])
           [] OTHER -> OnUnknown(c)

\* One turn of the loop over commands_batch, up to the reply: a line that
\* failed to parse goes to on_args_error, any other is dispatched.
ExecCommand(c) ==
    LET c1 == [c EXCEPT !.verb = ParseCommandLine(c.cur), !.at = c.stage,
                        !.xseq = c.ln, !.pend = NoReply, !.rstate = "reply"]
    IN  IF c1.verb = "BufferTooLong" THEN OnArgsError(c1) ELSE SmtpDispatch(c1)

\* The rest of the turn: the reply of a line that failed to parse is sent
\* with direct_send_reply, any other reply with send_reply.
CommandReply(c) ==
    LET c1 == [c EXCEPT !.rstate = "next"]
    IN  IF c.verb = "BufferTooLong"
        THEN DirectSendReply(c1, c.pend)
        ELSE IF c.pend = NoReply THEN c1 ELSE SendReply(c1, c.pend, c.verb)

\* Where the connection task goes with the outcome smtp_handshake returns.
AfterOutcome(c) ==
    CASE c.outcome = "Message" -> "message"
      [] c.outcome = "Quit" -> "closed"
      [] c.outcome = "UpgradeTLS" -> IF c.tls THEN "panicked" ELSE "tls"
      [] c.outcome = "Authenticate" -> "auth"
      [] OTHER -> "wait"

\* The end of a batch: the buffer is flushed, the outcome taken and, if there
\* is one, returned.
EndOfBatch(c) ==
    LET c1 == IF c.sinkbuf # <<>> THEN Flush(c) ELSE c
    IN  [c1 EXCEPT !.rstate = AfterOutcome(c1), !.outcome = "None", !.size = 0]

\* command_stream.try_next elapsed: the timeout reply, and Quit is returned.
HandshakeTimeout(c) ==
    [DirectSendReply(c, MkReply(451, c.ln)) EXCEPT !.rstate = "closed"]

\* upgrade_tls and into_secured_stream up to its loop: a new Reader, a new
\* WindowWriter and a new ReceiverContext, the error counter kept; then
\* on_post_tls_handshake, whose to_secured(..).expect("bad state") is Ok in
\* Connect and Helo only.
UpgradeTls(c) ==
    IF c.stage \in {StageConnect, StageHelo}
    THEN [c EXCEPT !.rstate = "wait", !.secured = TRUE, !.tls = TRUE,
                   !.more = FALSE,
                   !.sinkbuf = <<>>, !.outcome = "None"]
    ELSE Panic(c)

(* ------------------------ the end of a message ------------------------ *)

\* What the PreQ rules answer for a context (Faccept goes the way of Accept).
PreQStatus == {"Next", "Accept", "Quarantine", "DelegationResult", "Deny"}

\* The queue operation that fails, if one does.
IoFailures == {"none", "write_msg", "write_ctx", "send"}

\* The environment of a transaction: the PreQ verdict on the internal and on
\* the main context, and the failing queue operation.
Environments == [int : PreQStatus, main : PreQStatus, io : IoFailures]

\* Handler::on_message_completed_inner for a context whose skipped status is
\* given: what it did (msg: the body was written; ctxq: the queue the context
\* was written to; chan: the channel the ProcessMessage was sent on, and its
\* delegated flag) and whether it returned the 554 reply (err).
OnMessageCompletedInner(skipped, io) ==
    LET nothing == [err |-> TRUE, msg |-> FALSE, ctxq |-> "none",
                    chan |-> "none", delegated |-> FALSE]
        \* the match on skipped: <<queue, should_skip_working, delegated>>
        plan == CASE skipped = "Quarantine" -> <<"none", "none", FALSE>>
                  [] skipped = "DelegationResult" -> <<"none", "working", TRUE>>
                  [] skipped = "Deny" -> <<"dead", "none", FALSE>>
                  [] skipped = "Next" -> <<"working", "working", FALSE>>
                  [] OTHER -> <<"deliver", "delivery", FALSE>>
        early == IF skipped = "Quarantine" THEN "quarantine" ELSE "none"
    IN  IF skipped = "Delegated" \/ (skipped = "Quarantine" /\ io = "write_ctx")
        THEN nothing
        ELSE IF io = "write_msg"
        THEN [nothing EXCEPT !.ctxq = early]
        ELSE IF plan[1] # "none" /\ io = "write_ctx"
        THEN [nothing EXCEPT !.msg = TRUE]
        ELSE IF plan[2] # "none" /\ io = "send"
        THEN [nothing EXCEPT !.msg = TRUE,
                             !.ctxq = IF plan[1] # "none" THEN plan[1] ELSE early]
        ELSE [err |-> FALSE, msg |-> TRUE,
              ctxq |-> IF plan[1] # "none" THEN plan[1] ELSE early,
              chan |-> plan[2], delegated |-> plan[3]]

\* What handle_preq_header and the match on its status give for one context:
\* a Deny denies the connection and yields the rule's reply and no item, any
\* other status yields 250 and the context with that status as skipped.
PreQItem(kind, status) ==
    IF status = "Deny" THEN <<>> ELSE <<[kind |-> kind, skipped |-> status]>>

PreQCode(status) == IF status = "Deny" THEN 554 ELSE 250

\* A replacement that leaves the new context in stage Connect.
ReplacedAtConnect(c) ==
    [c EXCEPT !.stage = StageConnect, !.helo = "none", !.fwd = 0, !.dlv = 0,
              !.int = FALSE, !.ifwd = 0, !.idlv = 0, !.secured = FALSE]

\* The contexts on_message_inner leaves behind: state_internal is taken, and
\* the main context is replaced by a new one, built from the addresses, the
\* server name, the timestamp and the uuid of the connection (its
\* TlsProperties are None) and taken to stage Helo with the HeloProperties
\* of the old one.
ReplacedContext(c) ==
    [c EXCEPT !.stage = StageHelo, !.fwd = 0, !.dlv = 0,
              !.int = FALSE, !.ifwd = 0, !.idlv = 0, !.secured = FALSE]

\* Handler::on_message_inner once the body is read: the reply (in pend) and
\* the items to complete; to_finished(..).expect("bad state") needs the main
\* context in stage RcptTo.
OnMessageInner(c, env) ==
    LET hasInt == c.int
        hasMain == c.dlv > 0
        denied == (hasInt /\ env.int = "Deny") \/ (hasMain /\ env.main = "Deny")
        c1 == ReplacedContext(c)
        c2 == IF denied THEN [Deny(c1) EXCEPT !.denied = TRUE] ELSE c1
        ireply == MkReply(PreQCode(env.int), c.ln)
        mreply == MkReply(PreQCode(env.main), c.ln)
    IN  IF c.stage # StageRcptTo \/ (~hasInt /\ ~hasMain)
        THEN [c |-> Panic(c), items |-> <<>>]
        ELSE IF hasInt /\ hasMain
        THEN [c |-> [c2 EXCEPT !.pend = Extended(ireply, mreply)],
              items |-> PreQItem("internal", env.int) \o PreQItem("main", env.main)]
        ELSE IF hasInt
        THEN [c |-> [c2 EXCEPT !.pend = ireply],
              items |-> PreQItem("internal", env.int)]
        ELSE [c |-> [c2 EXCEPT !.pend = mreply],
              items |-> PreQItem("main", env.main)]

\* The outcome of on_message_completed for the items in order, stopping at
\* the first that returns an error.
CompleteItems(items, io) ==
    LET done(i) == [kind |-> items[i].kind, skipped |-> items[i].skipped,
                    eff |-> OnMessageCompletedInner(items[i].skipped, io)]
    IN  IF items = <<>>
        THEN <<>>
        ELSE IF Len(items) = 1 \/ done(1).eff.err
        THEN <<done(1)>>
        ELSE <<done(1), done(2)>>

\* A Message arm that sends the reply of on_message whatever
\* on_message_completed returned.
MessageCompletedKeepReply(c, env) ==
    LET m == OnMessageInner(c, env)
        done == CompleteItems(m.items, env.io)
    IN  IF m.c.rstate = "panicked"
        THEN [c |-> m.c, txn |-> [code |-> 0, items |-> <<>>]]
        ELSE [c |-> DirectSendReply([m.c EXCEPT !.rstate = "wait"], m.c.pend),
              txn |-> [code |-> m.c.pend.code, items |-> done]]

\* The Message arm of the receiver's loop once the body has ended with ".":
\* on_message, on_message_completed for each item, the first error replacing
\* the reply, then direct_send_reply.
MessageCompleted(c, env) ==
    LET m == OnMessageInner(c, env)
        done == CompleteItems(m.items, env.io)
        failed == \E i \in DOMAIN done : done[i].eff.err
        reply == IF failed THEN MkReply(554, c.ln) ELSE m.c.pend
    IN  IF m.c.rstate = "panicked"
        THEN [c |-> m.c, txn |-> [code |-> 0, items |-> <<>>]]
        ELSE [c |-> DirectSendReply([m.c EXCEPT !.rstate = "wait"], reply),
              txn |-> [code |-> reply.code, items |-> done]]

\* A Message arm that completes the message read so far when the body is
\* too long.
MessageTooLongPersists(c) ==
    [c |-> DirectSendReply([c EXCEPT !.rstate = "wait"], MkReply(552, c.ln)),
     txn |-> [code |-> 552,
              items |-> <<[kind |-> "main", skipped |-> "Next",
                           eff |-> OnMessageCompletedInner("Next", "none")]>>]]

\* The Message arm when as_message_stream yields buffer_too_long:
\* get_message_body gives the 552 reply and on_message returns it with no
\* item, the contexts untouched.
MessageTooLong(c) ==
    [c |-> DirectSendReply([c EXCEPT !.rstate = "wait"], MkReply(552, c.ln)),
     txn |-> [code |-> 552, items |-> <<>>]]

\* Bytes a line adds to the size as_message_stream counts, in units of an
\* ordinary line.
LineSize(line) == IF line = "LONG" THEN MessageSizeMax ELSE 1

\* One line of as_message_stream, read by the message parser inside
\* on_message.
MessageLine(c, env) ==
    IF c.cur = "DOT"
    THEN MessageCompleted(c, env)
    ELSE IF c.size + LineSize(c.cur) >= MessageSizeMax
    THEN MessageTooLong(c)
    ELSE [c |-> [c EXCEPT !.size = @ + LineSize(c.cur)],
          txn |-> [code |-> 0, items |-> <<>>]]

\* The accept arm of into_stream: on_accept answers Next and the greeting is
\* sent with direct_send_reply.
OnAccept(c) == DirectSendReply([c EXCEPT !.rstate = "wait"], MkReply(220, 0))

(* ------------------- the same lines, one at a time -------------------- *)

\* The receiver given one line as a read of its own, the client having read
\* every earlier reply (and, after "220 TLS go ahead", done the handshake)
\* before sending it.
OneAtATime(r, line, n, e) ==
    LET r0 == [r EXCEPT !.cur = line, !.ln = n, !.out = <<>>, !.more = FALSE]
    IN  CASE r.rstate = "wait" ->
               LET r1 == ExecCommand(r0)
                   r2 == EndOfBatch(CommandReply(r1))
               IN  IF r1.rstate = "panicked"
                   THEN r1
                   ELSE IF r2.rstate = "tls" THEN UpgradeTls(r2) ELSE r2
          [] r.rstate = "message" -> MessageLine(r0, e).c
          [] OTHER -> [r EXCEPT !.out = <<>>]

(* --------------------------- the queues -------------------------------- *)

\* QueueID; one quarantine name is configured.
QueueIDs == {"working", "deliver", "deferred", "delegated", "dead", "quarantine"}

\* transfer::Status of a recipient; errs is the length of HeldBack.errors.
Waiting == [st |-> "Waiting", errs |-> 0]

Sent == [st |-> "Sent", errs |-> 0]

Failed == [st |-> "Failed", errs |-> 0]

HeldBack(n) == [st |-> "HeldBack", errs |-> n]

\* The pipeline is followed for one message uuid: every queue operation and
\* every ProcessMessage is keyed by the uuid, so the files of a queue are the
\* context file of that uuid, or none.
\*
\* A finished context as the queues hold it: connect.skipped and the statuses
\* of the recipients of rcpt_to.delivery.  NoCtx: no file.
NoCtx == [skipped |-> "none", rcpts |-> <<>>]

NewCtx(skipped, n) == [skipped |-> skipped, rcpts |-> [i \in 1 .. n |-> Waiting]]

EmptyDisk == [q \in QueueIDs |-> NoCtx]

\* GenericQueueManager::get_ctx finds a context.
HasCtx(d, queue) == d[queue] # NoCtx

\* GenericQueueManager::write_ctx.
WriteCtx(d, queue, ctx) == [d EXCEPT ![queue] = ctx]

\* GenericQueueManager::move_to: one atomic rename, which carries ctx.
MoveTo(d, from, to, ctx) == [d EXCEPT ![from] = NoCtx, ![to] = ctx]

\* GenericQueueManager::remove_both, the context part.
RemoveCtx(d, queue) == [d EXCEPT ![queue] = NoCtx]

\* ProcessMessage::new and ProcessMessage::delegated.
ProcessMessageNew == [delegated |-> FALSE]

ProcessMessageDelegated == [delegated |-> TRUE]

\* The queue handle_one reads from: Delegated for a message that comes from a
\* delegation, else the queue of the process.
OriginQueue(pm, own) == IF pm.delegated THEN "delegated" ELSE own

\* What the rules may leave in skipped (Faccept and the like go the way of
\* Accept); DelegationResult stays only where the context carried it.
JustRunWhen(skipped) ==
    {"Next", "Accept", "Quarantine", "Delegated", "Deny"}
        \cup (IF skipped = "DelegationResult" THEN {"DelegationResult"} ELSE {})

\* A Deny that leaves the statuses of the recipients as they are.
StatusUnchanged(ctx) == ctx

\* The loop that fails every recipient of the delivery map on a Deny.
FailAll(ctx) == [ctx EXCEPT !.rcpts = [i \in DOMAIN ctx.rcpts |-> Failed]]

\* The steps left to a handle_one task: queue operations and channel sends,
\* each an await.
Op(op, arg) == [op |-> op, arg |-> arg]

\* A match on skipped whose Deny arm leaves the recipients as they are.
SkippedCtxDenyKeeps(ctx, skipped) ==
    IF skipped = "Delegated"
    THEN [ctx EXCEPT !.skipped = "DelegationResult"]
    ELSE ctx

\* What the match on skipped of handle_one does to the context before it is
\* moved: a delegated context carries DelegationResult, a denied one has
\* every recipient failed.
SkippedCtx(ctx, skipped) ==
    CASE skipped = "Delegated" -> [ctx EXCEPT !.skipped = "DelegationResult"]
      [] skipped = "Deny" -> FailAll(ctx)
      [] OTHER -> ctx

\* An Opt whose Next arm moves the context nowhere.
WorkingOptNoMove(skipped) ==
    CASE skipped = "Quarantine" ->
           [move_to_queue |-> "none", send_to_delivery |-> FALSE,
            write_email |-> TRUE, delegated |-> FALSE]
      [] skipped = "Delegated" ->
           [move_to_queue |-> "none", send_to_delivery |-> FALSE,
            write_email |-> FALSE, delegated |-> TRUE]
      [] skipped = "DelegationResult" ->
           [move_to_queue |-> "none", send_to_delivery |-> TRUE,
            write_email |-> TRUE, delegated |-> TRUE]
      [] skipped = "Deny" ->
           [move_to_queue |-> "dead", send_to_delivery |-> FALSE,
            write_email |-> TRUE, delegated |-> FALSE]
      [] OTHER ->
           [move_to_queue |-> "none", send_to_delivery |-> TRUE,
            write_email |-> TRUE, delegated |-> FALSE]

\* The Opt the match on skipped of the working handle_one gives.
WorkingOpt(skipped) ==
    CASE skipped = "Quarantine" ->
           [move_to_queue |-> "none", send_to_delivery |-> FALSE,
            write_email |-> TRUE, delegated |-> FALSE]
      [] skipped = "Delegated" ->
           [move_to_queue |-> "none", send_to_delivery |-> FALSE,
            write_email |-> FALSE, delegated |-> TRUE]
      [] skipped = "DelegationResult" ->
           [move_to_queue |-> "none", send_to_delivery |-> TRUE,
            write_email |-> TRUE, delegated |-> TRUE]
      [] skipped = "Deny" ->
           [move_to_queue |-> "dead", send_to_delivery |-> FALSE,
            write_email |-> TRUE, delegated |-> FALSE]
      [] OTHER ->
           [move_to_queue |-> "deliver", send_to_delivery |-> TRUE,
            write_email |-> TRUE, delegated |-> FALSE]

\* The awaits of the working handle_one after get_both, in order: those inside
\* the match (Quarantine, Delegated), then write_msg, move_to and
\* send_to_delivery as the Opt tells.
WorkingOps(skipped) ==
    LET opt == WorkingOpt(skipped)
    IN  (CASE skipped = "Quarantine" -> <<Op("move_to", "quarantine")>>
           [] skipped = "Delegated" ->
                <<Op("move_to", "delegated"), Op("write_msg", "")>>
           [] OTHER -> <<>>)
        \o (IF opt.write_email THEN <<Op("write_msg", "")>> ELSE <<>>)
        \o (IF opt.move_to_queue # "none"
            THEN <<Op("move_to", opt.move_to_queue)>> ELSE <<>>)
        \o (IF opt.send_to_delivery
            THEN <<Op("send", IF opt.delegated THEN "delegated" ELSE "new")>>
            ELSE <<>>)

\* The awaits of the delivery handle_one after get_both; on DelegationResult
\* it bails out, and with no status to obey it goes on to send the message.
DeliveryOps(skipped) ==
    CASE skipped = "Quarantine" ->
           <<Op("move_to", "quarantine"), Op("write_msg", "")>>
      [] skipped = "Delegated" ->
           <<Op("move_to", "delegated"), Op("write_msg", "")>>
      [] skipped = "DelegationResult" -> <<>>
      [] skipped = "Deny" -> <<Op("move_to", "dead"), Op("write_msg", "")>>
      [] OTHER -> <<Op("split_and_sort_and_send", "")>>

\* A delivery handle_one that takes MoveToDead for MoveToDeferred and back.
DeliverRouteSwapped(outcome) ==
    CASE outcome = "MoveToDead" ->
           <<Op("move_to", "deferred"), Op("write_msg", "")>>
      [] outcome = "MoveToDeferred" ->
           <<Op("move_to", "dead"), Op("write_msg", "")>>
      [] OTHER -> <<Op("remove_both", "")>>

\* The match on the SenderOutcome of the delivery handle_one.
DeliverRoute(outcome) ==
    CASE outcome = "MoveToDead" ->
           <<Op("move_to", "dead"), Op("write_msg", "")>>
      [] outcome = "MoveToDeferred" ->
           <<Op("move_to", "deferred"), Op("write_msg", "")>>
      [] OTHER -> <<Op("remove_both", "")>>

\* The match on the SenderOutcome of the deferred handle_one.
DeferredRoute(outcome) ==
    CASE outcome = "MoveToDead" -> <<Op("move_to", "dead")>>
      [] outcome = "MoveToDeferred" -> <<Op("write_ctx", "deferred")>>
      [] OTHER -> <<Op("remove_both", "")>>

\* What a transport answers for a recipient.
Outcomes == {"Sent", "Failed", "HeldBack"}

\* The status of a recipient after an attempt: a recipient held back
\* HeldBackMax times is failed.
TransportResult(status, r) ==
    CASE r = "Sent" -> Sent
      [] r = "Failed" -> Failed
      [] OTHER -> IF status.errs + 1 >= HeldBackMax
                  THEN Failed
                  ELSE HeldBack(status.errs + 1)

\* The order the recipients of a context are kept in: Sent, Failed, Waiting,
\* then HeldBack by the number of errors.  Which recipient holds which status
\* makes no difference to the queues.
StatusRank(status) ==
    CASE status.st = "Sent" -> 0
      [] status.st = "Failed" -> 1
      [] status.st = "Waiting" -> 2
      [] OTHER -> 2 + status.errs

SortByStatus(rcpts) ==
    LET n == Len(rcpts)
        before(i) ==
            Cardinality({j \in 1 .. n :
                \/ StatusRank(rcpts[j]) < StatusRank(rcpts[i])
                \/ StatusRank(rcpts[j]) = StatusRank(rcpts[i]) /\ j < i})
    IN  [k \in 1 .. n |-> rcpts[CHOOSE i \in 1 .. n : before(i) = k - 1]]

\* split_and_sort_and_send, the statuses: every recipient not yet Sent or
\* Failed is given to its transport and takes the status it answers.
SplitAndSortAndSend(ctx, res) ==
    [ctx EXCEPT !.rcpts = SortByStatus(
        [i \in DOMAIN ctx.rcpts |->
            IF ctx.rcpts[i].st \in {"Sent", "Failed"}
            THEN ctx.rcpts[i]
            ELSE TransportResult(ctx.rcpts[i], res[i])])]

\* split_and_sort_and_send, the SenderOutcome.
SenderOutcome(ctx) ==
    IF \E i \in DOMAIN ctx.rcpts :
          ctx.rcpts[i].st = "HeldBack" /\ ctx.rcpts[i].errs < HeldBackMax
    THEN "MoveToDeferred"
    ELSE IF ctx.rcpts # <<>> /\ \A i \in DOMAIN ctx.rcpts : ctx.rcpts[i].st = "Sent"
    THEN "RemoveFromDisk"
    ELSE "MoveToDead"

\* A handle_one task in flight: the process it belongs to, the queue it read
\* the context from, its copy of the context, the awaits it has left, and
\* whether it has had an effect other than a rename (a delivery attempt, a
\* write of the body or of the context, a send on a channel).
MkTask(kind, queue, ctx, ops) ==
    [kind |-> kind, queue |-> queue, ctx |-> ctx, ops |-> ops, acted |-> FALSE]

\* The task once it has had such an effect.
Acted(t) == [t EXCEPT !.acted = TRUE]

\* The tasks in flight once task t is replaced by what is left of it: a task
\* with no await left has returned.
Replace(ts, t, left) ==
    (ts (-) SetToBag({t}))
        (+) (IF left.ops = <<>> THEN EmptyBag ELSE SetToBag({left}))

\* The task once the await at the head of ops returned Ok.
Done(t) == [t EXCEPT !.ops = Tail(@)]

(* ---------------------- the recipients of a context ------------------- *)

\* The addresses given as recipients.
Addresses == {"a@x", "b@x"}

\* The transports that key RcptToProperties.delivery; "deliver" is the
\* Deliver transport on_rcpt_to gives every recipient.
Transports == {"deliver", "forward"}

\* Vec::swap_remove: the last element takes the place of the removed one.
SwapRemove(s, i) == SubSeq([s EXCEPT ![i] = s[Len(s)]], 1, Len(s) - 1)

\* Iterator::position of the first entry of a recipient; 0 for None.
Position(s, rcpt) ==
    IF \E i \in DOMAIN s : s[i].rcpt = rcpt
    THEN CHOOSE i \in DOMAIN s :
            /\ s[i].rcpt = rcpt
            /\ \A j \in 1 .. i - 1 : s[j].rcpt # rcpt
    ELSE 0

\* The entry of a recipient with transfer::Status::default().
NewRcpt(rcpt) == [rcpt |-> rcpt, status |-> Waiting]

\* Context::add_forward_path in stage MailFrom, RcptTo or Finished.  A
\* transport with no list and a transport with an empty list are not told
\* apart: entry(..).and_modify(push).or_insert_with(..) treats them alike.
AddForwardPathTo(ctx, forward_path, transport) ==
    IF ctx.stage = StageMailFrom
    THEN [stage |-> StageRcptTo,
          forward_paths |-> <<forward_path>>,
          delivery |-> [t \in Transports |->
                          IF t = transport THEN <<NewRcpt(forward_path)>>
                          ELSE <<>>]]
    ELSE [ctx EXCEPT !.forward_paths = Append(@, forward_path),
                     !.delivery[transport] = Append(@, NewRcpt(forward_path))]

\* retain(|rcpt| rcpt != forward_path)
Retain(s, forward_path) == SelectSeq(s, LAMBDA rcpt : rcpt # forward_path)

\* Context::remove_forward_path in stage RcptTo or Finished: every occurrence
\* leaves forward_paths, and the first entry of the first list that has one
\* leaves delivery.  The lists are visited in the order of the HashMap, which
\* is any order: the set of the contexts it may leave.
RemoveForwardPath(ctx, forward_path) ==
    LET kept == [ctx EXCEPT !.forward_paths = Retain(@, forward_path)]
        has == {t \in Transports : Position(ctx.delivery[t], forward_path) # 0}
    IN  IF has = {} THEN {kept}
        ELSE {[kept EXCEPT !.delivery[t] =
                  SwapRemove(@, Position(@, forward_path))] : t \in has}

\* Context::set_transport_for_one: the first entry of the recipient leaves
\* every list that has one, and a new entry joins the list of the transport.
SetTransportForOne(ctx, search, transport) ==
    LET removed == [t \in Transports |->
                      IF Position(ctx.delivery[t], search) # 0
                      THEN SwapRemove(ctx.delivery[t],
                                      Position(ctx.delivery[t], search))
                      ELSE ctx.delivery[t]]
    IN  [ctx EXCEPT !.delivery =
            [removed EXCEPT ![transport] = Append(@, NewRcpt(search))]]

\* Context::set_transport_foreach: delivery is cleared and the transport is
\* given one new entry for each element of forward_paths.
SetTransportForeach(ctx, transport) ==
    [ctx EXCEPT !.delivery =
        [t \in Transports |->
            IF t = transport
            THEN [i \in DOMAIN ctx.forward_paths |->
                    NewRcpt(ctx.forward_paths[i])]
            ELSE <<>>]]

(* ----------------------------- the listener --------------------------- *)

\* The connections the listener is followed for.
MaxClients == 4

Clients == 1 .. MaxClients

\* config.server.client_count_max of the modelled server.
ClientCountMax == 2

\* A guard that lets one connection more in.
CountMaxExceeded(client_counter) ==
    ClientCountMax # -1 /\ client_counter > ClientCountMax

\* The guard of handle_client: the connection is rejected.
CountMaxReached(client_counter) ==
    ClientCountMax # -1 /\ client_counter >= ClientCountMax

(* ---------------------- the skipped status of a handler -------------- *)

\* The transactions followed on one connection.
MaxTxn == 4

\* What the rules of a stage before the queue may answer.
Verdicts == {"Next", "Accept", "Faccept", "Deny"}

\* The verdicts that end the evaluation of the rules.
IsFinished(status) == status \in {"Faccept", "Deny"}

\* RuleEngine::run_when on the Option<Status> it is given by reference: with
\* a status in it the rules are not run and that status is the answer;
\* otherwise the rules are run and a verdict that skips the stages to come is
\* stored in it.
RunWhen(skipped, verdict) ==
    IF skipped # "None"
    THEN [status |-> skipped, skipped |-> skipped, evaluated |-> FALSE]
    ELSE [status |-> verdict, evaluated |-> TRUE,
          skipped |-> IF IsFinished(verdict) THEN verdict ELSE "None"]

\* The Handler before on_accept: the stage of its context (-1: none yet), its field
\* skipped, the transaction at hand (txn), the transaction in which skipped
\* was stored (skipped_txn), the transaction of the last policy stage
\* (ran_txn), the stage it left the context in (ran: Finished for PreQ) and
\* whether its rules were run (evaluated), and whether ReceiverContext::deny
\* was called.
NewHandler ==
    [stage |-> -1, skipped |-> "None", txn |-> 1, skipped_txn |-> 0,
     ran_txn |-> 0, ran |-> -1, evaluated |-> TRUE, denied |-> FALSE]

\* A callback that runs the rules of a policy stage on the field skipped and
\* leaves the context in the given stage.
PolicyStage(h, stage, verdict) ==
    LET r == RunWhen(h.skipped, verdict)
    IN  [h EXCEPT !.stage = stage, !.skipped = r.skipped,
                  !.skipped_txn = IF h.skipped = "None" /\ r.skipped # "None"
                                  THEN h.txn ELSE @,
                  !.ran_txn = h.txn, !.ran = stage,
                  !.evaluated = r.evaluated, !.denied = r.status = "Deny"]

\* Handler::on_message_inner: handle_preq_header runs the PreQ rules on a
\* clone of skipped, then the context is replaced by a new one in stage
\* Helo; the field skipped is not assigned.
OnMessageSkipped(h, verdict) ==
    LET r == RunWhen(h.skipped, verdict)
    IN  [h EXCEPT !.stage = StageHelo, !.txn = @ + 1, !.ran_txn = h.txn,
                  !.ran = StageFinished,
                  !.evaluated = r.evaluated, !.denied = r.status = "Deny"]

\* Handler::on_rset: the context is reset and state_internal dropped; the
\* field skipped is not assigned.
OnRsetSkipped(h) == [h EXCEPT !.stage = StageHelo, !.txn = @ + 1]

(* ------------------------- the AUTH exchanges ------------------------- *)

\* The AUTH exchanges followed on one connection.
MaxAuth == 6

\* config.server.esmtp.auth.attempt_count_max of the modelled server.
AttemptCountMax == 2

\* What Receiver::authenticate may return: Ok or an AuthError.
AuthResults ==
    {"Ok", "ClientMustNotStart", "ValidationError", "Canceled", "Base64",
     "SessionError", "NoSharedMechanism"}

\* connect.auth of a new context: None.
NoAuth ==
    [some |-> FALSE, authenticated |-> FALSE, cancel_count |-> 0,
     credentials |-> FALSE]

\* Context::with_credentials, called by the validation of the SASL session.
WithCredentials(a) ==
    [some |-> TRUE, authenticated |-> FALSE, cancel_count |-> 0,
     credentials |-> TRUE]

\* Context::to_auth in the stages Connect and Helo: the AuthProperties of
\* the connection are set anew.
ToAuth(a) ==
    [some |-> TRUE, authenticated |-> FALSE, cancel_count |-> 0,
     credentials |-> FALSE]

\* The connection as the AUTH exchanges see it: connect.auth, the exchanges
\* made and those the client canceled, the code of the last reply of
\* on_post_auth, and whether ReceiverContext::deny was called.
NoExchange ==
    [auth |-> NoAuth, exchanges |-> 0, canceled |-> 0, code |-> 0,
     denied |-> FALSE]

\* Handler::on_post_auth_inner.
OnPostAuthInner(x, result) ==
    CASE result = "Ok" ->
           [x EXCEPT !.auth.authenticated = TRUE, !.code = 235]
      [] result = "ClientMustNotStart" -> [x EXCEPT !.code = 501]
      [] result = "ValidationError" -> [x EXCEPT !.code = 535, !.denied = TRUE]
      [] result = "Canceled" ->
           LET auth_properties == [ToAuth(x.auth) EXCEPT !.cancel_count = @ + 1]
           IN  [x EXCEPT !.auth = auth_properties, !.code = 501,
                         !.denied = AttemptCountMax # -1
                                    /\ auth_properties.cancel_count
                                           >= AttemptCountMax]
      [] result = "Base64" -> [x EXCEPT !.code = 501]
      [] result = "SessionError" -> [x EXCEPT !.code = 454, !.denied = TRUE]
      [] OTHER -> [x EXCEPT !.code = 504, !.denied = TRUE]

(* ---------------------- the arguments of MAIL FROM -------------------- *)

\* The parameters that follow the mailbox on one MAIL FROM line.
MaxArgs == 5

\* The parameters a client gives, each one word of the line.
Params == {"BODY=8BITMIME", "SIZE=1", "SMTPUTF8", "ENVID=x", "RET=HDRS"}

\* split_args: the key and the value of a word that holds a '='.
ArgKey(arg) ==
    CASE arg = "BODY=8BITMIME" -> "BODY"
      [] arg = "SIZE=1" -> "SIZE"
      [] arg = "ENVID=x" -> "ENVID"
      [] arg = "RET=HDRS" -> "RET"
      [] OTHER -> "none"

ArgValue(arg) ==
    CASE arg = "BODY=8BITMIME" -> "8BITMIME"
      [] arg = "SIZE=1" -> "1"
      [] arg = "ENVID=x" -> "x"
      [] arg = "RET=HDRS" -> "Headers"
      [] OTHER -> "none"

\* The MailFromArgs try_from starts with, and the error it may end with.
NewMailFromArgs ==
    [err |-> "none", mime_body_type |-> "None", size |-> "None",
     use_smtputf8 |-> FALSE, envelop_id |-> "None", ret |-> "None"]

InvalidArgs(r) == [r EXCEPT !.err = "InvalidArgs"]

\* MailFromArgs::parse_arguments: BODY, RET and ENVID are refused when given
\* twice; SIZE is refused when mime_body_type is set.
ParseArguments(r, arg) ==
    CASE ArgKey(arg) = "BODY" ->
           IF r.mime_body_type # "None" THEN InvalidArgs(r)
           ELSE [r EXCEPT !.mime_body_type = ArgValue(arg)]
      [] ArgKey(arg) = "SIZE" ->
           IF r.mime_body_type # "None" THEN InvalidArgs(r)
           ELSE [r EXCEPT !.size = ArgValue(arg)]
      [] ArgKey(arg) = "RET" ->
           IF r.ret # "None" THEN InvalidArgs(r)
           ELSE [r EXCEPT !.ret = ArgValue(arg)]
      [] ArgKey(arg) = "ENVID" ->
           IF r.envelop_id # "None" THEN InvalidArgs(r)
           ELSE [r EXCEPT !.envelop_id = ArgValue(arg)]
      [] OTHER -> InvalidArgs(r)

\* MailFromArgs::parse_options.
ParseOptions(r, arg) ==
    IF arg = "SMTPUTF8" THEN [r EXCEPT !.use_smtputf8 = TRUE] ELSE InvalidArgs(r)

\* TryFrom<UnparsedArgs> for MailFromArgs, after the mailbox: the words are
\* parsed in order, the first error is returned.
RECURSIVE ParseFrom(_, _)
ParseFrom(r, args) ==
    IF args = <<>> \/ r.err # "none"
    THEN r
    ELSE LET arg == Head(args)
         IN  ParseFrom(IF ArgKey(arg) # "none"
                       THEN ParseArguments(r, arg)
                       ELSE ParseOptions(r, arg),
                       Tail(args))

MailFromArgsTryFrom(args) == ParseFrom(NewMailFromArgs, args)

(* ------------------------------- state -------------------------------- *)

VARIABLES
    conn,      \* the receiver of the connection and its handler
    ref,       \* the same receiver, given the same lines one at a time
    expect,    \* replies written by ref that conn has not written yet
    diverged,  \* conn wrote something else than ref did
    env,       \* the environment of the transactions, once it has shown
    last_txn,  \* the final reply of the last message and what was persisted
    disk,        \* the context file of the message in each queue
    mail,        \* the message has a body file
    working_ch,  \* the channel to the working process
    delivery_ch, \* the channel to the delivery process
    tasks,       \* the handle_one tasks in flight
    received,    \* the transaction of the message has been completed
    acked,       \* a transaction of the message was answered 250
    context,     \* the envelope of a context whose recipients are edited
    dq,          \* the clock and the recipients of a message held in deferred
    srv,         \* the listener: client_counter and the connections accepted
    hnd,         \* the handler's skipped status over the transactions
    sasl,        \* the AUTH exchanges of a connection
    line         \* a MAIL FROM line: its parameters and what try_from gave

cvars == <<conn, ref, expect, diverged, env, last_txn>>

qvars == <<disk, mail, working_ch, delivery_ch, tasks, received, acked>>

rvars == <<context>>

dvars == <<dq>>

svars == <<srv>>

hvars == <<hnd>>

avars == <<sasl>>

mvars == <<line>>

vars == <<cvars, qvars, rvars, dvars, svars, hvars, avars, mvars>>

NoEnv == [int |-> "unset", main |-> "unset", io |-> "unset"]

NoTxn == [code |-> 0, items |-> <<>>]

Init ==
    /\ conn = NewReceiver
    /\ line = [args |-> <<>>, parsed |-> FALSE, result |-> NewMailFromArgs]
    /\ sasl = NoExchange
    /\ hnd = NewHandler
    /\ ref = NewReceiver
    /\ expect = <<>>
    /\ diverged = FALSE
    /\ env = NoEnv
    /\ last_txn = NoTxn
    /\ disk = EmptyDisk
    /\ mail = FALSE
    /\ working_ch = <<>>
    /\ delivery_ch = <<>>
    /\ tasks = EmptyBag
    /\ received = FALSE
    /\ acked = FALSE
    /\ dq = [now |-> 0, rcpts |-> <<>>, did |-> "none"]
    /\ srv = [client_counter |-> 0, conns |-> [c \in Clients |-> "none"]]
    /\ context = [stage |-> StageMailFrom, forward_paths |-> <<>>,
                  delivery |-> [t \in Transports |-> <<>>]]

\* The environments a step may meet: the one already shown, or any when a
\* message ends for the first time.
EnvChoices(need) == IF need /\ env = NoEnv THEN Environments ELSE {env}

\* conn and ref take their new values, and what conn wrote is matched against
\* what ref wrote.  Once they differ ref is left where it is.
Observe(c, r) ==
    LET e == expect \o r.out
        w == c.out
        same == Len(w) <= Len(e) /\ SubSeq(e, 1, Len(w)) = w
        bad == diverged \/ ~same
    IN  /\ conn' = c
        /\ diverged' = bad
        /\ expect' = IF bad THEN <<>> ELSE SubSeq(e, Len(w) + 1, Len(e))
        /\ ref' = IF diverged THEN ref ELSE r

\* ref while conn works on lines it has already been given.
Idle(r) == [r EXCEPT !.out = <<>>]

\* The reader yields line l; more tells whether the same read holds further
\* lines.  A line comes from the buffer when it holds some, else from a new
\* read of the socket.
Yield(c, l, m, rstate) ==
    [c EXCEPT !.cur = l, !.ln = @ + 1, !.more = m, !.out = <<>>,
              !.nb = IF c.more THEN @ + 1 ELSE 1, !.rstate = rstate]

CanYield(c, m) ==
    /\ c.ln < MaxLines
    /\ m => /\ c.ln + 1 < MaxLines
            /\ (IF c.more THEN c.nb + 1 ELSE 1) < MaxBatch

(* ------------------------------ actions ------------------------------- *)

Accept ==
    /\ conn.rstate = "accept"
    /\ Observe(OnAccept(conn), OnAccept(ref))
    /\ UNCHANGED <<env, last_txn>>
    /\ UNCHANGED <<qvars, rvars, dvars, svars, hvars, avars, mvars>>

\* as_window_stream yields a batch: its first command is at hand.
WindowRead(l, m) ==
    /\ conn.rstate = "wait"
    /\ CanYield(conn, m)
    /\ \E e \in EnvChoices(l = "DOT" /\ ref.rstate = "message" /\ ~diverged) :
          /\ Observe(Yield(conn, l, m, "cmd"), OneAtATime(ref, l, conn.ln + 1, e))
          /\ env' = e
    /\ UNCHANGED last_txn
    /\ UNCHANGED <<qvars, rvars, dvars, svars, hvars, avars, mvars>>

\* The next command of the batch.
NextCommand(l, m) ==
    /\ conn.rstate = "next"
    /\ conn.more
    /\ CanYield(conn, m)
    /\ \E e \in EnvChoices(l = "DOT" /\ ref.rstate = "message" /\ ~diverged) :
          /\ Observe(Yield(conn, l, m, "cmd"), OneAtATime(ref, l, conn.ln + 1, e))
          /\ env' = e
    /\ UNCHANGED last_txn
    /\ UNCHANGED <<qvars, rvars, dvars, svars, hvars, avars, mvars>>

Exec ==
    /\ conn.rstate = "cmd"
    /\ Observe(ExecCommand([conn EXCEPT !.out = <<>>]), Idle(ref))
    /\ UNCHANGED <<env, last_txn>>
    /\ UNCHANGED <<qvars, rvars, dvars, svars, hvars, avars, mvars>>

Reply ==
    /\ conn.rstate = "reply"
    /\ Observe(CommandReply([conn EXCEPT !.out = <<>>]), Idle(ref))
    /\ UNCHANGED <<env, last_txn>>
    /\ UNCHANGED <<qvars, rvars, dvars, svars, hvars, avars, mvars>>

EndBatch ==
    /\ conn.rstate = "next"
    /\ ~conn.more
    /\ Observe(EndOfBatch([conn EXCEPT !.out = <<>>]), Idle(ref))
    /\ UNCHANGED <<env, last_txn>>
    /\ UNCHANGED <<qvars, rvars, dvars, svars, hvars, avars, mvars>>

\* on_message reads a line of the body; at the "." it runs to the final reply.
BodyLine(l, m) ==
    /\ conn.rstate = "message"
    /\ CanYield(conn, m)
    /\ \E e \in EnvChoices(l = "DOT") :
          LET res == MessageLine(Yield(conn, l, m, "message"), e)
          IN  /\ Observe(res.c, OneAtATime(ref, l, conn.ln + 1, e))
              /\ env' = e
              /\ last_txn' = IF res.txn = NoTxn THEN last_txn ELSE res.txn
    /\ UNCHANGED <<qvars, rvars, dvars, svars, hvars, avars, mvars>>

\* No command arrives within the timeout.
Timeout ==
    /\ conn.rstate = "wait"
    /\ ~conn.more
    /\ Observe(HandshakeTimeout([conn EXCEPT !.out = <<>>]),
               IF ref.rstate = "wait"
               THEN HandshakeTimeout(Idle(ref))
               ELSE Idle(ref))
    /\ UNCHANGED <<env, last_txn>>
    /\ UNCHANGED <<qvars, rvars, dvars, svars, hvars, avars, mvars>>

\* The client closes the connection: the batch is empty, Quit is returned.
Eof ==
    /\ conn.rstate = "wait"
    /\ ~conn.more
    /\ Observe([conn EXCEPT !.out = <<>>, !.rstate = "closed"],
               [ref EXCEPT !.out = <<>>, !.rstate = "closed"])
    /\ UNCHANGED <<env, last_txn>>
    /\ UNCHANGED <<qvars, rvars, dvars, svars, hvars, avars, mvars>>

TlsHandshake ==
    /\ conn.rstate = "tls"
    /\ Observe(UpgradeTls([conn EXCEPT !.out = <<>>]), Idle(ref))
    /\ UNCHANGED <<env, last_txn>>
    /\ UNCHANGED <<qvars, rvars, dvars, svars, hvars, avars, mvars>>

Next ==
    \/ Accept
    \/ \E l \in Lines, m \in BOOLEAN : WindowRead(l, m)
    \/ \E l \in Lines, m \in BOOLEAN : NextCommand(l, m)
    \/ Exec
    \/ Reply
    \/ EndBatch
    \/ \E l \in Lines, m \in BOOLEAN : BodyLine(l, m)
    \/ Timeout
    \/ Eof
    \/ TlsHandshake

Spec == Init /\ [][Next]_vars

(* ------------------- actions of the queue pipeline -------------------- *)

\* Emitter::send_to_working / send_to_delivery wait while the channel is full.
CanSend(chan) ==
    CASE chan = "working" -> Len(working_ch) < WorkingChannelSize
      [] chan = "delivery" -> Len(delivery_ch) < DeliveryChannelSize
      [] OTHER -> TRUE

\* A receiver completes a transaction: on_message_completed_inner for a
\* context of n recipients whose PreQ status is skipped.  It is the
\* transaction the message uuid was generated for, or a later one that brings
\* back a delegation result whose X-VSMTP-DELEGATION header names the uuid
\* (its own context is written nowhere, so n is left at 1).
Receive(skipped, n, io) ==
    LET fresh == skipped # "DelegationResult"
        eff == OnMessageCompletedInner(skipped, io)
        pm == IF eff.delegated THEN ProcessMessageDelegated ELSE ProcessMessageNew
    IN  /\ IF fresh THEN ~received ELSE n = 1
        /\ CanSend(eff.chan)
        /\ received' = (received \/ fresh)
        /\ acked' = (acked \/ ~eff.err)
        /\ mail' = (mail \/ eff.msg)
        /\ disk' = IF eff.ctxq # "none"
                   THEN WriteCtx(disk, eff.ctxq, NewCtx(skipped, n))
                   ELSE disk
        /\ working_ch' = IF eff.chan = "working"
                         THEN Append(working_ch, pm) ELSE working_ch
        /\ delivery_ch' = IF eff.chan = "delivery"
                          THEN Append(delivery_ch, pm) ELSE delivery_ch
        /\ UNCHANGED tasks
        /\ UNCHANGED <<cvars, rvars, dvars, svars, hvars, avars, mvars>>

\* handle_one up to its first queue operation after get_both: the context is
\* loaded from the origin queue, the rules run, and the match on skipped
\* gives the awaits to come.  A get_both that fails ends the task.
StartTask(pm, kind, own, verdict, ops) ==
    LET queue == OriginQueue(pm, own)
        found == HasCtx(disk, queue) /\ mail
        ctx == disk[queue]
    IN  /\ BagCardinality(tasks) < MaxTasks
        /\ IF found
           THEN /\ verdict \in JustRunWhen(ctx.skipped)
                /\ tasks' = tasks (+)
                     (IF ops = <<>>
                      THEN EmptyBag
                      ELSE SetToBag({MkTask(kind, queue,
                                            SkippedCtx(ctx, verdict), ops)}))
           ELSE /\ verdict = "Next"
                /\ UNCHANGED tasks

\* The working process takes a ProcessMessage and spawns handle_one.
WorkingStart(verdict) ==
    /\ working_ch # <<>>
    /\ StartTask(Head(working_ch), "working", "working", verdict,
                 WorkingOps(verdict))
    /\ working_ch' = Tail(working_ch)
    /\ UNCHANGED <<disk, mail, delivery_ch, received, acked>>
    /\ UNCHANGED <<cvars, rvars, dvars, svars, hvars, avars, mvars>>

\* The delivery process takes a ProcessMessage and runs handle_one.
DeliveryStart(verdict) ==
    /\ delivery_ch # <<>>
    /\ StartTask(Head(delivery_ch), "delivery", "deliver", verdict,
                 DeliveryOps(verdict))
    /\ delivery_ch' = Tail(delivery_ch)
    /\ UNCHANGED <<disk, mail, working_ch, received, acked>>
    /\ UNCHANGED <<cvars, rvars, dvars, svars, hvars, avars, mvars>>

\* flush_deferred_queue comes to the uuid in its listing: the deferred
\* handle_one up to split_and_sort_and_send, for a message that is due.
DeferredStart ==
    /\ BagCardinality(tasks) < MaxTasks
    /\ HasCtx(disk, "deferred")
    /\ mail
    /\ tasks' = tasks (+)
         SetToBag({MkTask("deferred", "deferred", disk["deferred"],
                          <<Op("split_and_sort_and_send", "")>>)})
    /\ UNCHANGED <<disk, mail, working_ch, delivery_ch, received, acked>>
    /\ UNCHANGED <<cvars, rvars, dvars, svars, hvars, avars, mvars>>

\* Task t is in flight and stands at the await op.
AtOp(t, op) == t \in BagToSet(tasks) /\ Head(t.ops).op = op

\* What the transports may answer for the recipients of ctx that are given to
\* them; for the others no answer is taken, and "Sent" stands in its place.
Answers(ctx) ==
    {res \in [1 .. MaxRcpt -> Outcomes] :
        \A i \in 1 .. MaxRcpt :
            (i > Len(ctx.rcpts) \/ ctx.rcpts[i].st \in {"Sent", "Failed"})
                => res[i] = "Sent"}

\* split_and_sort_and_send returns: the recipients have their new statuses
\* and the SenderOutcome tells what comes next.
TaskSend(t, res) ==
    /\ AtOp(t, "split_and_sort_and_send")
    /\ LET ctx == SplitAndSortAndSend(t.ctx, res)
       IN  tasks' = Replace(tasks, t,
               Acted(MkTask(t.kind, t.queue, ctx,
                            IF t.kind = "deferred"
                            THEN DeferredRoute(SenderOutcome(ctx))
                            ELSE DeliverRoute(SenderOutcome(ctx)))))
    /\ UNCHANGED <<disk, mail, working_ch, delivery_ch, received, acked>>
    /\ UNCHANGED <<cvars, rvars, dvars, svars, hvars, avars, mvars>>

\* move_to from the origin queue: the loser of a rename gets an error, which
\* ends the task.
TaskMoveTo(t) ==
    /\ AtOp(t, "move_to")
    /\ IF HasCtx(disk, t.queue)
       THEN /\ disk' = MoveTo(disk, t.queue, Head(t.ops).arg, t.ctx)
            /\ tasks' = Replace(tasks, t, Done(t))
       ELSE /\ tasks' = tasks (-) SetToBag({t})
            /\ UNCHANGED disk
    /\ UNCHANGED <<mail, working_ch, delivery_ch, received, acked>>
    /\ UNCHANGED <<cvars, rvars, dvars, svars, hvars, avars, mvars>>

TaskWriteMsg(t) ==
    /\ AtOp(t, "write_msg")
    /\ mail' = TRUE
    /\ tasks' = Replace(tasks, t, Done(Acted(t)))
    /\ UNCHANGED <<disk, working_ch, delivery_ch, received, acked>>
    /\ UNCHANGED <<cvars, rvars, dvars, svars, hvars, avars, mvars>>

\* write_ctx of the deferred handle_one: the context is written in place.
TaskWriteCtx(t) ==
    /\ AtOp(t, "write_ctx")
    /\ disk' = WriteCtx(disk, Head(t.ops).arg, t.ctx)
    /\ tasks' = Replace(tasks, t, Done(Acted(t)))
    /\ UNCHANGED <<mail, working_ch, delivery_ch, received, acked>>
    /\ UNCHANGED <<cvars, rvars, dvars, svars, hvars, avars, mvars>>

TaskRemoveBoth(t) ==
    /\ AtOp(t, "remove_both")
    /\ disk' = RemoveCtx(disk, t.queue)
    /\ mail' = FALSE
    /\ tasks' = Replace(tasks, t, Done(t))
    /\ UNCHANGED <<working_ch, delivery_ch, received, acked>>
    /\ UNCHANGED <<cvars, rvars, dvars, svars, hvars, avars, mvars>>

\* send_to_delivery of the working handle_one.
TaskSendToDelivery(t) ==
    /\ AtOp(t, "send")
    /\ CanSend("delivery")
    /\ delivery_ch' = Append(delivery_ch,
           IF Head(t.ops).arg = "delegated"
           THEN ProcessMessageDelegated
           ELSE ProcessMessageNew)
    /\ tasks' = Replace(tasks, t, Done(Acted(t)))
    /\ UNCHANGED <<disk, mail, working_ch, received, acked>>
    /\ UNCHANGED <<cvars, rvars, dvars, svars, hvars, avars, mvars>>

NextQ ==
    \/ \E skipped \in PreQStatus \ {"Deny"}, n \in 1 .. MaxRcpt,
          io \in IoFailures : Receive(skipped, n, io)
    \/ \E verdict \in PreQStatus \cup {"Delegated"} : WorkingStart(verdict)
    \/ \E verdict \in PreQStatus \cup {"Delegated"} : DeliveryStart(verdict)
    \/ DeferredStart
    \/ \E t \in BagToSet(tasks) : \E res \in Answers(t.ctx) : TaskSend(t, res)
    \/ \E t \in BagToSet(tasks) : TaskMoveTo(t)
    \/ \E t \in BagToSet(tasks) : TaskWriteMsg(t)
    \/ \E t \in BagToSet(tasks) : TaskWriteCtx(t)
    \/ \E t \in BagToSet(tasks) : TaskRemoveBoth(t)
    \/ \E t \in BagToSet(tasks) : TaskSendToDelivery(t)

SpecQ == Init /\ [][NextQ]_vars

(* ======================= claims on the connection ===================== *)

\* conn has worked through every line it was given and waits for input.
Quiescent == conn.rstate \in {"wait", "message", "closed"} /\ ~conn.more

\* C1: with pipelining, however the input lines are split across reads, the
\* replies written to the socket are, in order, the replies the same lines
\* get when sent one at a time: nothing else is ever written, and once the
\* lines read are worked through nothing is missing.
C1_PipelinedAsOneAtATime == ~diverged /\ (Quiescent => expect = <<>>)

\* C2: replies reach the socket in the order of the lines they answer, the
\* replies to lines that fail to parse included.
C2_RepliesInCommandOrder ==
    [][\A i \in DOMAIN conn'.out :
          conn'.out[i].seq >= IF i = 1 THEN conn.wseq ELSE conn'.out[i - 1].seq]_vars

\* C3: while the 354 reply to an accepted DATA has not been written to the
\* socket, no line after that DATA has been processed as a command.
C3_NoCommandBefore354 ==
    \A i \in DOMAIN conn.sinkbuf :
        conn.sinkbuf[i].code = 354 => conn.xseq <= conn.sinkbuf[i].seq

\* The step that executes RSET, and the step that ends a message at its ".".
RsetStep == conn.rstate = "cmd" /\ ParseCommandLine(conn.cur) = "Rset"

MessageEndStep ==
    conn.rstate = "message" /\ conn'.cur = "DOT" /\ conn'.ln = conn.ln + 1

\* C4 as stated: the stage never decreases except when RSET is executed, and
\* after RSET the stage is Helo.
C4_StageDecreasesOnlyOnRset ==
    [][/\ conn'.stage < conn.stage => RsetStep
       /\ RsetStep => conn'.stage = StageHelo]_vars

\* C4 amended: the stage decreases only when RSET is executed or a message
\* ends; RSET leaves Connect as it is and turns every other stage into Helo,
\* and the end of a message leaves the stage at Helo.
C4_StageDecreasesOnlyOnRsetOrMessageEnd ==
    [][/\ conn'.stage < conn.stage => RsetStep \/ MessageEndStep
       /\ RsetStep =>
            conn'.stage = IF conn.stage = StageConnect
                          THEN StageConnect ELSE StageHelo
       /\ MessageEndStep /\ conn'.rstate # "panicked" =>
            conn'.stage = StageHelo]_vars

\* RSET was executed in stage RcptTo and left the stage at Helo.
C4_Witness ==
    /\ conn.rstate = "reply"
    /\ conn.verb = "Rset"
    /\ conn.at = StageRcptTo
    /\ conn.stage = StageHelo

\* The contexts and the outcome a command may change.
Envelope(c) ==
    <<c.stage, c.helo, c.fwd, c.dlv, c.int, c.ifwd, c.idlv, c.secured,
      c.outcome>>

\* The stages C5 names for each verb.
C5_Stages(verb) ==
    CASE verb = "MailFrom" -> {StageHelo, StageMailFrom}
      [] verb = "RcptTo" -> {StageMailFrom, StageRcptTo}
      [] verb = "Data" -> {StageRcptTo}
      [] verb \in {"StartTls", "Auth"} -> {StageConnect, StageHelo}
      [] OTHER -> {StageConnect, StageHelo, StageMailFrom, StageRcptTo}

\* C5: MAIL FROM, RCPT TO, DATA, STARTTLS and AUTH issued outside their
\* stages are answered 503 and leave the stage, the envelope and the outcome
\* as they were; only within their stages do they get another answer.
C5_OutOfSequenceIs503 ==
    [][conn.rstate = "cmd" /\ ParseCommandLine(conn.cur) # "BufferTooLong" =>
          LET verb == ParseCommandLine(conn.cur)
          IN  IF conn.stage \in C5_Stages(verb)
              THEN conn'.rstate = "panicked" \/ conn'.pend.code # 503
              ELSE /\ conn'.pend.code = 503
                   /\ Envelope(conn') = Envelope(conn)]_vars

\* DATA straight after MAIL FROM was answered 503, the stage still MailFrom.
C5_Witness ==
    /\ conn.rstate = "reply"
    /\ conn.verb = "Data"
    /\ conn.at = StageMailFrom
    /\ conn.stage = StageMailFrom
    /\ conn.pend.code = 503

\* Every step on_message_completed_inner takes for some status was taken.
C7_AllSteps(eff) == eff.msg /\ eff.ctxq # "none" /\ eff.chan # "none"

\* C7 as stated: the final reply to DATA is 250 only if, for every message of
\* the transaction, the body and the context were written and the
\* ProcessMessage enqueued; if a step fails the reply is 554.
C7_AckOnlyIfWrittenAndEnqueued ==
    /\ last_txn.code = 250 =>
          \A i \in DOMAIN last_txn.items : C7_AllSteps(last_txn.items[i].eff)
    /\ (\E i \in DOMAIN last_txn.items : last_txn.items[i].eff.err) =>
          last_txn.code = 554

\* The steps the PreQ status of a message calls for were taken.
C7_StepsOf(item) ==
    /\ ~item.eff.err
    /\ item.eff.msg
    /\ CASE item.skipped = "Quarantine" ->
              item.eff.ctxq = "quarantine" /\ item.eff.chan = "none"
         [] item.skipped = "DelegationResult" ->
              /\ item.eff.ctxq = "none"
              /\ item.eff.chan = "working"
              /\ item.eff.delegated
         [] item.skipped = "Next" ->
              item.eff.ctxq = "working" /\ item.eff.chan = "working"
         [] OTHER ->
              item.eff.ctxq = "deliver" /\ item.eff.chan = "delivery"

\* C7 amended: the final reply to DATA is 250 only if, for every message of
\* the transaction, every step its PreQ status calls for succeeded: the body
\* written; the context written to quarantine, working or deliver (none for
\* a delegation result); the ProcessMessage enqueued (none for a quarantined
\* message).  If a step fails the reply is 554.
C7_AckOnlyIfStepsOfStatusDone ==
    /\ last_txn.code = 250 =>
          \A i \in DOMAIN last_txn.items : C7_StepsOf(last_txn.items[i])
    /\ (\E i \in DOMAIN last_txn.items : last_txn.items[i].eff.err) =>
          last_txn.code = 554

\* A transaction of two messages was acknowledged with 250.
C7_Witness == last_txn.code = 250 /\ Len(last_txn.items) = 2

(* ===================== claims on the queue pipeline =================== *)

\* The queues that hold a context file for the message uuid.
QueuesOf == {q \in QueueIDs : HasCtx(disk, q)}

\* C6: for a message uuid, at every moment, at most one queue holds a context
\* file for it.
C6_AtMostOneQueue == Cardinality(QueuesOf) <= 1

\* This step puts a ProcessMessage on the delivery channel.
SentToDelivery == Len(delivery_ch') = Len(delivery_ch) + 1

LastSent == delivery_ch'[Len(delivery_ch')]

\* C8 as stated: a ProcessMessage is put on the delivery channel only once
\* the context of its uuid is in the deliver queue.
C8_SentOnlyOnceInDeliver ==
    [][SentToDelivery => HasCtx(disk', "deliver")]_vars

\* C8 amended: a ProcessMessage without the delegated flag is put on the
\* delivery channel only once the context of its uuid is in the deliver
\* queue; one with the delegated flag is put there by a working task that
\* loaded the context from the delegated queue and moved it nowhere.
C8_NewSentOnlyOnceInDeliver ==
    [][SentToDelivery =>
          IF LastSent.delegated
          THEN \E t \in BagToSet(tasks) :
                  /\ t.kind = "working"
                  /\ t.queue = "delegated"
                  /\ t.ops = <<Op("send", "delegated")>>
                  /\ t.ctx.skipped = "DelegationResult"
                  /\ tasks' = tasks (-) SetToBag({t})
          ELSE HasCtx(disk', "deliver")]_vars

\* The working process has moved the context into deliver and its
\* ProcessMessage is on the delivery channel.
C8_Witness ==
    /\ delivery_ch = <<ProcessMessageNew>>
    /\ HasCtx(disk, "deliver")
    /\ disk["deliver"].skipped = "Next"
    /\ tasks = EmptyBag

\* C9: every recipient of a context in the dead queue is Sent or Failed.
C9_DeadIsTerminal ==
    HasCtx(disk, "dead") =>
        \A i \in DOMAIN disk["dead"].rcpts :
            disk["dead"].rcpts[i].st \in {"Sent", "Failed"}

\* A context of two recipients, one Sent and one Failed, is in dead.
C9_Witness == HasCtx(disk, "dead") /\ disk["dead"].rcpts = <<Sent, Failed>>

\* C10: a context in the deferred queue has a recipient that is HeldBack with
\* fewer than held_back_max errors.
C10_DeferredHasHeldBack ==
    HasCtx(disk, "deferred") =>
        \E i \in DOMAIN disk["deferred"].rcpts :
            /\ disk["deferred"].rcpts[i].st = "HeldBack"
            /\ disk["deferred"].rcpts[i].errs < HeldBackMax

\* A context of two recipients, one Sent and one HeldBack, is in deferred.
C10_Witness ==
    /\ HasCtx(disk, "deferred")
    /\ disk["deferred"].rcpts = <<Sent, HeldBack(1)>>

\* The rename of task t finds no context in its origin queue (NotFound): the
\* task drops the message.
LosesRename(t) ==
    /\ AtOp(t, "move_to")
    /\ ~HasCtx(disk, t.queue)
    /\ tasks' = tasks (-) SetToBag({t})

\* C11: of the workers that picked the same uuid, the one that gets NotFound
\* on the rename has had no other effect on the message: no delivery attempt,
\* no write of the body, no send on a channel.
C11_LoserHasNoEffect ==
    [][\A t \in BagToSet(tasks) : LosesRename(t) => ~t.acted]_vars

(* ================== more claims on the connection ===================== *)

\* The replies this step handed to the writer: the reply it put in the
\* buffer, or what it wrote to the socket beyond the buffer it flushed.
NewReplies ==
    IF Len(conn'.sinkbuf) > Len(conn.sinkbuf)
    THEN <<conn'.sinkbuf[Len(conn'.sinkbuf)]>>
    ELSE IF conn'.sinkbuf = <<>> /\ conn.sinkbuf # <<>>
    THEN SubSeq(conn'.out, Len(conn.sinkbuf) + 1, Len(conn'.out))
    ELSE conn'.out

\* C12: a step that hands replies to the writer raises error_count by one for
\* each of them whose code is 4yz or 5yz, and by nothing else; the step is the
\* one that answers the line, so it comes before the next command is
\* dispatched.
C12_ErrorReplyCountsOnce ==
    [][/\ conn'.error_count = conn.error_count
            + Cardinality({i \in DOMAIN NewReplies : IsError(NewReplies[i])})
       /\ conn.rstate = "cmd" /\ conn'.rstate # "panicked" =>
            /\ conn'.rstate = "reply"
            /\ conn'.error_count = conn.error_count
       /\ conn.rstate = "reply" =>
            /\ conn'.rstate = "next"
            /\ conn.pend # NoReply => NewReplies = <<conn'.pend>>]_vars

\* The 503 to an out of sequence DATA waits in the buffer, it has been
\* counted, and the next command of the batch is at hand.
C12_Witness ==
    /\ conn.rstate = "cmd"
    /\ conn.error_count = 1
    /\ Len(conn.sinkbuf) = 1
    /\ conn.sinkbuf[1].code = 503
    /\ conn.ln > conn.sinkbuf[1].seq

\* The reply carries the line "451 Too many errors from the client".
HasTooManyErrors(reply) == \E i \in DOMAIN reply.ext : reply.ext[i] = 451

\* A reply that brought error_count to the hard threshold or beyond has been
\* written to the socket: one was produced and the buffer holds none.
HardErrorFlushed ==
    /\ ThresholdHardError # -1
    /\ conn.error_count >= ThresholdHardError
    /\ \A i \in DOMAIN conn.sinkbuf : ~HasTooManyErrors(conn.sinkbuf[i])

\* C13: the reply that brings error_count to the hard threshold or beyond is
\* extended with the 451 line, and once it has been written to the socket no
\* command is executed any more.
C13_NoCommandAfterHardError ==
    [][/\ \A i \in DOMAIN NewReplies :
             (/\ ThresholdHardError # -1
              /\ IsError(NewReplies[i])
              /\ conn'.error_count >= ThresholdHardError)
                 => HasTooManyErrors(NewReplies[i])
       /\ conn.rstate = "cmd" /\ conn'.rstate = "reply" => ~HardErrorFlushed]_vars

\* C14: once the rules have answered Deny (here for a message, at its end)
\* the reply is written and no command is executed any more, in the same
\* read or in a later one.
C14_NoCommandAfterDeny ==
    [][/\ conn'.denied /\ ~conn.denied => conn'.out # <<>>
       /\ conn.rstate = "cmd" /\ conn'.rstate = "reply" => ~conn.denied]_vars

\* The step dispatches the line at hand as a command.
Dispatch == conn.rstate = "cmd" /\ conn'.rstate \in {"reply", "panicked"}

\* C15: QUIT is answered 221 in every stage and marks the connection to be
\* closed, and the line that follows a QUIT is never executed (so nothing
\* after QUIT is executed or answered, and nothing cancels the close).  The
\* verb of the last command dispatched is still in conn.verb when the next
\* line is at hand.
C15_NothingAfterQuit ==
    [][/\ Dispatch /\ ParseCommandLine(conn.cur) = "Quit" =>
            conn'.pend.code = 221 /\ conn'.outcome = "Quit"
       /\ Dispatch => conn.verb # "Quit"]_vars

\* C16: HELO/EHLO is handled in every stage: the callback returns its reply
\* and leaves the context in stage Helo.
C16_HeloInEveryStage ==
    [][Dispatch /\ ParseCommandLine(conn.cur) \in {"Helo", "Ehlo"} =>
          /\ conn'.rstate = "reply"
          /\ conn'.pend.code = 250
          /\ conn'.stage = StageHelo]_vars

\* A message has just been completed: its body ended with ".", the final
\* reply (250, or 554) was sent, and no command has been dispatched since.
AfterMessage == conn.xseq < conn.ln - 1 /\ last_txn.code \in {250, 554}

\* C17: the end of a message leaves a context in stage Helo that keeps the
\* client name given at HELO/EHLO and holds no transaction, and a MAIL FROM
\* that comes next, with no HELO/EHLO or RSET before it, is accepted and
\* starts a transaction under that name.
C17_MailFromAfterMessage ==
    [][/\ MessageEndStep /\ conn'.cur = "DOT" /\ conn'.rstate # "panicked" =>
            /\ conn'.stage = StageHelo
            /\ conn'.helo = conn.helo /\ conn.helo # "none"
            /\ conn'.fwd = 0 /\ conn'.dlv = 0 /\ ~conn'.int
       /\ Dispatch /\ ParseCommandLine(conn.cur) = "MailFrom" /\ AfterMessage =>
            /\ conn'.rstate = "reply"
            /\ conn'.pend.code = 250
            /\ conn'.stage = StageMailFrom
            /\ conn'.helo = conn.helo /\ conn.helo # "none"
            /\ conn'.fwd = 0 /\ conn'.dlv = 0 /\ ~conn'.int]_vars

\* HELO, MAIL FROM, RCPT TO, DATA and "." were answered, the message was
\* acknowledged, and the MAIL FROM sent next has been accepted under the name
\* given with HELO.
C17_Witness ==
    /\ conn.rstate = "reply"
    /\ conn.cur = "MAIL"
    /\ conn.ln = 6
    /\ last_txn.code = 250
    /\ conn.at = StageHelo
    /\ conn.stage = StageMailFrom
    /\ conn.helo = "helo"
    /\ conn.pend.code = 250

\* C18: the handshake that follows an accepted STARTTLS leaves the context
\* in stage Connect, with its TLS properties set and no client name, whether
\* STARTTLS was issued in stage Connect or in stage Helo.
C18_RestartAtConnectAfterTls ==
    [][conn.rstate = "tls" /\ conn'.rstate # "panicked" =>
            /\ conn'.secured
            /\ conn'.stage = StageConnect
            /\ conn'.helo = "none"]_vars

\* C19: once the TLS properties of the connection are set, every later step
\* of the connection (a RSET, the end of a message, a new transaction) leaves
\* them set.
C19_TlsPropertiesStay ==
    [][conn.secured /\ conn'.rstate # "panicked" => conn'.secured]_vars

(* ================ claims on the recipients of a context =============== *)

\* The entries delivery is followed up to.
MaxEntries == 4

\* The entries of the context (a removal may leave some behind).
EntryCount(ctx) ==
    LET RECURSIVE Sum(_)
        Sum(ts) == IF ts = {} THEN 0
                   ELSE LET t == CHOOSE t \in ts : TRUE
                        IN  Len(ctx.delivery[t]) + Sum(ts \ {t})
    IN  Sum(Transports)

\* Handler::on_rcpt_to for a recipient that goes to the main context: 452
\* once rcpt_count_max recipients are held, else the recipient is added with
\* the Deliver transport.
RcptTo(forward_path) ==
    /\ EntryCount(context) < MaxEntries
    /\ Len(context.forward_paths) < RcptCountMax
    /\ context' = AddForwardPathTo(context, forward_path, "deliver")
    /\ UNCHANGED <<cvars, qvars, dvars, svars, hvars, avars, mvars>>

\* A rule removes a recipient.
RemoveRcpt(forward_path) ==
    /\ context.stage = StageRcptTo
    /\ context' \in RemoveForwardPath(context, forward_path)
    /\ UNCHANGED <<cvars, qvars, dvars, svars, hvars, avars, mvars>>

\* A rule sets the transport of one of the recipients.
SetOne(i, transport) ==
    /\ context.stage = StageRcptTo
    /\ i \in DOMAIN context.forward_paths
    /\ context' = SetTransportForOne(context, context.forward_paths[i],
                                     transport)
    /\ UNCHANGED <<cvars, qvars, dvars, svars, hvars, avars, mvars>>

\* A rule sets the transport of all the recipients.
SetForeach(transport) ==
    /\ context.stage = StageRcptTo
    /\ context' = SetTransportForeach(context, transport)
    /\ UNCHANGED <<cvars, qvars, dvars, svars, hvars, avars, mvars>>

NextR ==
    \/ \E forward_path \in Addresses : RcptTo(forward_path)
    \/ \E forward_path \in Addresses : RemoveRcpt(forward_path)
    \/ \E i \in 1 .. RcptCountMax, transport \in Transports :
          SetOne(i, transport)
    \/ \E transport \in Transports : SetForeach(transport)

SpecR == Init /\ [][NextR]_vars

\* The entries of a recipient across all the lists of delivery.
Entries(ctx, rcpt) ==
    {<<t, i>> \in Transports \X (1 .. MaxEntries) :
        i \in DOMAIN ctx.delivery[t] /\ ctx.delivery[t][i].rcpt = rcpt}

\* C20: every recipient in forward_paths has exactly one entry across the
\* lists of delivery.
C20_OneEntryPerRecipient ==
    \A i \in DOMAIN context.forward_paths :
        Cardinality(Entries(context, context.forward_paths[i])) = 1

(* ================ claims on the end of a transaction ================== *)

\* This step ends, with ".", the body of a transaction that holds internal
\* recipients and others; the PreQ rules answer Next or Accept for both
\* contexts and no queue operation fails.
BothContextsEnd ==
    /\ MessageEndStep
    /\ conn'.rstate # "panicked"
    /\ conn.int /\ conn.ifwd > 0 /\ conn.fwd > 0
    /\ env'.int \in {"Next", "Accept"} /\ env'.main \in {"Next", "Accept"}
    /\ env'.io = "none"

\* C21: at the end of such a transaction two contexts and two bodies are
\* written, and each context records for delivery its own recipients only:
\* the internal context as many entries as internal recipients, the main
\* context as many as the others, whatever the order of the RCPT TO.
C21_TwoContextsSplitRecipients ==
    [][BothContextsEnd =>
          /\ Len(last_txn'.items) = 2
          /\ \A i \in 1 .. 2 : /\ last_txn'.items[i].eff.msg
                                /\ last_txn'.items[i].eff.ctxq # "none"
          /\ last_txn'.items[1].kind # last_txn'.items[2].kind
          /\ conn.idlv = conn.ifwd
          /\ conn.dlv = conn.fwd]_vars

\* C22: a message of the last transaction whose PreQ status is Next or
\* Accept, and whose queue operations all succeeded, was written to the
\* working queue and its ProcessMessage put on the working channel.
C22_NextOrAcceptGoesToWorking ==
    \A i \in DOMAIN last_txn.items :
        LET item == last_txn.items[i]
        IN  item.skipped \in {"Next", "Accept"} /\ ~item.eff.err =>
                /\ item.eff.ctxq = "working"
                /\ item.eff.chan = "working"
                /\ ~item.eff.delegated

\* This step ends, with ".", the body of a transaction of one context, for
\* which the PreQ rules answer Deny; no queue operation fails.
DeniedEnd ==
    /\ MessageEndStep
    /\ conn'.rstate # "panicked"
    /\ ~conn.int /\ conn.dlv > 0
    /\ env'.main = "Deny"
    /\ env'.io = "none"

\* C23: a message the PreQ rules deny is written to the dead queue (and to
\* no channel), and the reply of the rule is sent.
C23_DeniedGoesToDead ==
    [][DeniedEnd =>
          /\ last_txn'.code = 554
          /\ Len(last_txn'.items) = 1
          /\ last_txn'.items[1].eff.ctxq = "dead"
          /\ last_txn'.items[1].eff.chan = "none"]_vars

(* ===================== claims on the processors ====================== *)

\* The place of a step in the order C24 gives.
C24_Rank(op) ==
    CASE op.op = "move_to" -> 2
      [] op.op = "write_msg" -> 3
      [] op.op = "send" -> 4
      [] OTHER -> 0

\* C24: the awaits a working handle_one has before it come in the order
\* move_to, write_msg, channel send, with at most one move_to and at most
\* one write_msg.
C24_WorkingStepsInOrder ==
    \A t \in BagToSet(tasks) :
        t.kind = "working" =>
            /\ \A i, j \in DOMAIN t.ops :
                    i < j => C24_Rank(t.ops[i]) < C24_Rank(t.ops[j])
            /\ \A i \in DOMAIN t.ops : C24_Rank(t.ops[i]) # 0

\* This step starts the delivery handle_one t, whose Delivery rules answer
\* Deny: the context is about to be moved to dead.
DeliveryDenied(t) ==
    /\ Len(delivery_ch') < Len(delivery_ch)
    /\ tasks' = tasks (+) SetToBag({t})
    /\ t.kind = "delivery"
    /\ t.ops = DeliveryOps("Deny")

MaxTime == 12

MaxSpan == 1

\* `held_back_count.seconds() * 60 * 5`: the minutes a message waits for each
\* recipient held back.
BaseInterval == 5

\* A recipient with the time of the last of its errors (0 when it has none).
Stamped(status, ts) ==
    [st |-> status.st, errs |-> status.errs,
     ts |-> IF status.st = "HeldBack" THEN ts ELSE 0]

\* split_and_sort_and_send with the time of each error: every recipient not
\* yet Sent or Failed is given to its transport, and an error is recorded
\* with the time at which the transport gave up.
AttemptAt(rcpts, res, stamps) ==
    [i \in DOMAIN rcpts |->
        IF rcpts[i].st \in {"Sent", "Failed"}
        THEN rcpts[i]
        ELSE Stamped(TransportResult(rcpts[i], res[i]), stamps[i])]

\* The recipients held back.
HeldBackOf(rcpts) == {i \in DOMAIN rcpts : rcpts[i].st = "HeldBack"}

\* last_error of the deferred handle_one: the earliest, over the recipients
\* held back, of the time of their last error.
LastError(rcpts) ==
    CHOOSE t \in {rcpts[i].ts : i \in HeldBackOf(rcpts)} :
        \A i \in HeldBackOf(rcpts) : t <= rcpts[i].ts

\* The guard of the deferred handle_one: the message is not ready.
NotReady(rcpts, flushing_at) ==
    /\ HeldBackOf(rcpts) # {}
    /\ LastError(rcpts) + Cardinality(HeldBackOf(rcpts)) * BaseInterval
            > flushing_at

\* What the transports answer and when, for an attempt that starts now and
\* takes d minutes.
Attempts(d) ==
    [res : [1 .. MaxRcpt -> Outcomes],
     stamps : [1 .. MaxRcpt -> dq.now .. dq.now + d]]

\* The delivery handle_one attempts a message of n recipients for the first
\* time and moves it to deferred.
DeliveryDefers(n, a, d) ==
    LET rcpts == AttemptAt([i \in 1 .. n |-> Stamped(Waiting, 0)],
                           a.res, a.stamps)
    IN  /\ dq.rcpts = <<>>
        /\ dq.did = "none"
        /\ dq.now + d <= MaxTime
        /\ SenderOutcome([rcpts |-> rcpts]) = "MoveToDeferred"
        /\ dq' = [now |-> dq.now + d, rcpts |-> rcpts, did |-> "deferred"]
        /\ UNCHANGED <<cvars, qvars, rvars, svars, hvars, avars, mvars>>

\* The deferred handle_one for the message, in a sweep that starts now: a
\* message that is not ready is left as it is; any other is attempted again
\* and stays in deferred, with the new statuses, on MoveToDeferred only.
DeferredHandleOne(a, d) ==
    LET rcpts == AttemptAt(dq.rcpts, a.res, a.stamps)
    IN  /\ dq.rcpts # <<>>
        /\ dq.now + d <= MaxTime
        /\ IF NotReady(dq.rcpts, dq.now)
           THEN d = 0 /\ dq' = [dq EXCEPT !.did = "skipped"]
           ELSE dq' = [now |-> dq.now + d,
                       rcpts |-> IF SenderOutcome([rcpts |-> rcpts])
                                      = "MoveToDeferred"
                                 THEN rcpts ELSE <<>>,
                       did |-> "attempted"]
        /\ UNCHANGED <<cvars, qvars, rvars, svars, hvars, avars, mvars>>

\* A minute passes.
Tick ==
    /\ dq.now < MaxTime
    /\ dq' = [dq EXCEPT !.now = @ + 1, !.did = "tick"]
    /\ UNCHANGED <<cvars, qvars, rvars, svars, hvars, avars, mvars>>

NextD ==
    \/ \E n \in 1 .. MaxRcpt, d \in 0 .. MaxSpan : \E a \in Attempts(d) :
          DeliveryDefers(n, a, d)
    \/ \E d \in 0 .. MaxSpan : \E a \in Attempts(d) : DeferredHandleOne(a, d)
    \/ Tick

SpecD == Init /\ [][NextD]_vars

\* The time of the last delivery error recorded for the message.
C26_LastErrorTimestamp ==
    CHOOSE t \in {dq.rcpts[i].ts : i \in HeldBackOf(dq.rcpts)} :
        \A i \in HeldBackOf(dq.rcpts) : t >= dq.rcpts[i].ts

\* The message is due, as C26 has it.
C26_Due ==
    \/ HeldBackOf(dq.rcpts) = {}
    \/ C26_LastErrorTimestamp
            + Cardinality(HeldBackOf(dq.rcpts)) * BaseInterval <= dq.now

\* C26: the deferred processor attempts a message again only when the time
\* of its last error plus five minutes for each recipient held back has
\* come; otherwise the message is skipped and left as it is.
C26_RetryOnlyWhenDue ==
    [][/\ dq'.did = "attempted" => C26_Due
       /\ dq'.did = "skipped" => ~C26_Due /\ dq'.rcpts = dq.rcpts]_vars

(* ======================== claims on the listener ====================== *)

\* Server::handle_client for the next connection accepted by listen, which
\* awaits it before it accepts another: the connection is sent
\* conn_max_reach_reply and shut down, or the counter is incremented and the
\* session spawned.
HandleClient(c) ==
    /\ srv.conns[c] = "none"
    /\ \A b \in 1 .. c - 1 : srv.conns[b] # "none"
    /\ srv' = IF CountMaxReached(srv.client_counter)
              THEN [srv EXCEPT !.conns[c] = "rejected"]
              ELSE [srv EXCEPT !.client_counter = @ + 1,
                                !.conns[c] = "serving"]
    /\ UNCHANGED <<cvars, qvars, rvars, dvars, hvars, avars, mvars>>

\* The session of a connection returns, Ok after an orderly close or Err
\* after an I/O error, and the task decrements the counter.
SessionReturns(c, how) ==
    /\ srv.conns[c] = "serving"
    /\ srv' = [srv EXCEPT !.client_counter = @ - 1, !.conns[c] = how]
    /\ UNCHANGED <<cvars, qvars, rvars, dvars, hvars, avars, mvars>>

\* The session of a connection panics: the task is unwound at session.await
\* and the fetch_sub that follows is not run.
SessionPanics(c) ==
    /\ srv.conns[c] = "serving"
    /\ srv' = [srv EXCEPT !.conns[c] = "panicked"]
    /\ UNCHANGED <<cvars, qvars, rvars, dvars, hvars, avars, mvars>>

NextS ==
    \/ \E c \in Clients : HandleClient(c)
    \/ \E c \in Clients, how \in {"closed", "io_error"} : SessionReturns(c, how)
    \/ \E c \in Clients : SessionPanics(c)

SpecS == Init /\ [][NextS]_vars

\* The connections being served.
Serving(s) == {c \in Clients : s.conns[c] = "serving"}

\* C27: a connection accepted while the counter has reached
\* client_count_max is rejected (554 and shutdown, no greeting), any other is
\* served, and the connections served at once never exceed client_count_max.
C27_RejectedWhenCountMaxReached ==
    [][/\ \A c \in Clients :
            srv.conns[c] = "none" /\ srv'.conns[c] # "none" =>
                srv'.conns[c] = IF ClientCountMax >= 0
                                   /\ srv.client_counter >= ClientCountMax
                                THEN "rejected" ELSE "serving"
       /\ ClientCountMax >= 0 =>
            Cardinality(Serving(srv')) <= ClientCountMax]_vars

\* A connection was rejected while client_count_max connections were served.
C27_Witness ==
    /\ Cardinality(Serving(srv)) = ClientCountMax
    /\ \E c \in Clients : srv.conns[c] = "rejected"

\* C28: the counter equals the number of live connection tasks, however the
\* tasks before them ended.
C28_CounterIsLiveTasks == srv.client_counter = Cardinality(Serving(srv))

(* ======================= claims on the scheduler ====================== *)

\* config.server.system.thread_pool.processing of the modelled server: the
\* size of the working pool.
ThreadPoolProcessing == 1

\* The working handle_one tasks in flight.
WorkingInFlight ==
    LET RECURSIVE Sum(_)
        Sum(ts) == IF ts = {} THEN 0
                   ELSE LET t == CHOOSE t \in ts : TRUE
                        IN  CopiesIn(t, tasks) + Sum(ts \ {t})
    IN  Sum({t \in BagToSet(tasks) : t.kind = "working"})

\* C29: the channels never hold more than their capacity, and the working
\* stage never has more messages in hand than the size of its pool: a
\* ProcessMessage stays on the channel while the stage is saturated.
C29_StagesBounded ==
    /\ Len(working_ch) <= WorkingChannelSize
    /\ Len(delivery_ch) <= DeliveryChannelSize
    /\ WorkingInFlight <= ThreadPoolProcessing

(* ======================== claims on the writer ======================== *)

\* The step in which send_reply is given the reply to a verb whose reply is
\* to be written at once.
ImmediateReplyStep ==
    /\ conn.rstate = "reply"
    /\ conn.verb \in {"Ehlo", "Data", "Quit", "Noop"}
    /\ conn.pend # NoReply
    /\ conn'.rstate = "next"

\* C30: when send_reply returns from the reply to EHLO, DATA, QUIT or NOOP the
\* writer's buffer is empty and the reply is on the socket.
C30_ImmediateVerbsAreFlushed ==
    [][ImmediateReplyStep => conn'.sinkbuf = <<>> /\ conn'.out # <<>>]_vars

(* ===================== claims on the size of a body =================== *)

\* The step that reads the line of a body with which the size counted by
\* as_message_stream reaches the limit.
TooLongStep ==
    /\ conn.rstate = "message"
    /\ conn'.ln = conn.ln + 1
    /\ conn'.cur # "DOT"
    /\ conn.size + LineSize(conn'.cur) >= MessageSizeMax

\* C31: when the body exceeds the size limit the client is sent a 552 reply
\* and the transaction is not persisted: no body and no context is written to
\* a queue and no ProcessMessage is sent.
C31_TooLongNotPersisted ==
    [][TooLongStep =>
          /\ \E i \in DOMAIN conn'.out : conn'.out[i].code = 552
          /\ last_txn' = [code |-> 552, items |-> <<>>]]_vars

C31_Witness ==
    /\ conn.rstate = "wait"
    /\ conn.cur \in {"TEXT", "LONG"}
    /\ conn.fwd > 0
    /\ \E i \in DOMAIN conn.out : conn.out[i].code = 552
    /\ last_txn = [code |-> 552, items |-> <<>>]

(* ================ claims on the recipients of a transaction ========== *)

\* The recipients accepted in the transaction at hand: the forward paths of
\* the main context and those of state_internal.
AcceptedRecipients == conn.fwd + (IF conn.int THEN conn.ifwd ELSE 0)

\* C32: the recipients accepted in one transaction, those of the internal
\* context included, never exceed rcpt_count_max.
C32_RcptCountMaxOverAllClasses == AcceptedRecipients <= RcptCountMax

(* ===================== claims on the skip verdicts ==================== *)

\* Handler::on_accept: the Connect rules are run on a new skipped, which the
\* Handler then keeps.
AcceptH ==
    /\ hnd.stage = -1
    /\ \E v \in Verdicts : hnd' = PolicyStage(hnd, StageConnect, v)
    /\ UNCHANGED <<cvars, qvars, rvars, dvars, svars, avars, mvars>>

\* on_helo and on_ehlo, in the stages where to_helo is Ok.
HeloH ==
    /\ ~hnd.denied
    /\ hnd.stage \in {StageConnect, StageHelo}
    /\ \E v \in Verdicts : hnd' = PolicyStage(hnd, StageHelo, v)
    /\ UNCHANGED <<cvars, qvars, rvars, dvars, svars, avars, mvars>>

\* on_mail_from.
MailFromH ==
    /\ ~hnd.denied
    /\ hnd.stage = StageHelo
    /\ \E v \in Verdicts : hnd' = PolicyStage(hnd, StageMailFrom, v)
    /\ UNCHANGED <<cvars, qvars, rvars, dvars, svars, avars, mvars>>

\* on_rcpt_to.
RcptToH ==
    /\ ~hnd.denied
    /\ hnd.stage \in {StageMailFrom, StageRcptTo}
    /\ \E v \in Verdicts : hnd' = PolicyStage(hnd, StageRcptTo, v)
    /\ UNCHANGED <<cvars, qvars, rvars, dvars, svars, avars, mvars>>

\* on_rset.
RsetH ==
    /\ ~hnd.denied
    /\ hnd.stage \in {StageHelo, StageMailFrom, StageRcptTo}
    /\ hnd.txn < MaxTxn
    /\ hnd' = OnRsetSkipped(hnd)
    /\ UNCHANGED <<cvars, qvars, rvars, dvars, svars, avars, mvars>>

\* on_message for a body that ends with ".".
MessageH ==
    /\ ~hnd.denied
    /\ hnd.stage = StageRcptTo
    /\ hnd.txn < MaxTxn
    /\ \E v \in Verdicts : hnd' = OnMessageSkipped(hnd, v)
    /\ UNCHANGED <<cvars, qvars, rvars, dvars, svars, avars, mvars>>

NextH == AcceptH \/ HeloH \/ MailFromH \/ RcptToH \/ RsetH \/ MessageH

SpecH == Init /\ [][NextH]_vars

Authenticate(result) ==
    /\ ~sasl.denied
    /\ sasl.exchanges < MaxAuth
    /\ LET validated == result \in {"Ok", "ValidationError"}
           x == [sasl EXCEPT !.exchanges = @ + 1,
                             !.canceled = IF result = "Canceled"
                                          THEN @ + 1 ELSE @,
                             !.auth = IF validated
                                      THEN WithCredentials(@) ELSE @]
       IN  sasl' = OnPostAuthInner(x, result)
    /\ UNCHANGED <<cvars, qvars, rvars, dvars, svars, hvars, mvars>>

NextA == \E result \in AuthResults : Authenticate(result)

SpecA == Init /\ [][NextA]_vars

\* C34: the canceled AUTH exchanges of a connection are all counted, and the
\* connection is dropped once their number reaches attempt_count_max.
C34_DroppedAtAttemptCountMax ==
    sasl.canceled >= AttemptCountMax => sasl.denied

(* ======================= claims on the timeout ======================== *)

\* The receiver waits for the client: for a command or for a line of a body,
\* with no line left in the buffer of the Reader.
WaitingForInput == conn.rstate \in {"wait", "message"} /\ ~conn.more

\* C35: whenever the receiver waits for input of the client, for a command
\* line or for a line of a body, the timeout can elapse: the step that writes
\* '451 Timeout - closing connection' and closes the connection is enabled.
C35_TimeoutWheneverWaiting == WaitingForInput => ENABLED Timeout

(* ================= claims on the arguments of MAIL FROM =============== *)

\* The client writes one more parameter on the line.
WriteParam(arg) ==
    /\ ~line.parsed
    /\ Len(line.args) < MaxArgs
    /\ line' = [line EXCEPT !.args = Append(@, arg)]
    /\ UNCHANGED <<cvars, qvars, rvars, dvars, svars, hvars, avars>>

\* The line is dispatched: MailFromArgs::try_from parses its parameters.
ParseLine ==
    /\ ~line.parsed
    /\ line' = [line EXCEPT !.parsed = TRUE,
                            !.result = MailFromArgsTryFrom(line.args)]
    /\ UNCHANGED <<cvars, qvars, rvars, dvars, svars, hvars, avars>>

NextM == (\E arg \in Params : WriteParam(arg)) \/ ParseLine

SpecM == Init /\ [][NextM]_vars

\* The line carries each of the five parameters once, in some order.
AllParamsOnce ==
    /\ Len(line.args) = Cardinality(Params)
    /\ {line.args[i] : i \in DOMAIN line.args} = Params

\* C36: a MAIL FROM line that carries BODY=8BITMIME, SIZE=n, SMTPUTF8, ENVID=x
\* and RET=HDRS is parsed successfully whatever the order of the parameters,
\* and gives the same fields.
C36_AnyOrderSameFields ==
    line.parsed /\ AllParamsOnce =>
        line.result = [err |-> "none", mime_body_type |-> "8BITMIME",
                       size |-> "1", use_smtputf8 |-> TRUE,
                       envelop_id |-> "x", ret |-> "Headers"]

(* ================= claims on the safety of a message ================== *)

\* The context of the message is in a queue and its body is on disk.
Present == mail /\ QueuesOf # {}

\* Every recipient of the context is Sent.
AllSent(ctx) ==
    ctx.rcpts # <<>> /\ \A i \in DOMAIN ctx.rcpts : ctx.rcpts[i].st = "Sent"

\* This step is the remove_both of a task that has seen every recipient Sent.
RemovedOnceSent ==
    \E t \in BagToSet(tasks) :
        /\ AtOp(t, "remove_both")
        /\ AllSent(t.ctx)
        /\ tasks' = Replace(tasks, t, Done(t))

\* C37: a message answered 250 is never lost: its context and its body are
\* in a queue when it is acknowledged, and they stay in one through every
\* step of the processes until a task that has every recipient Sent removes
\* them.
C37_AckedNeverLost ==
    [][/\ (~acked /\ acked' => Present')
       /\ (acked /\ Present /\ ~Present' => RemovedOnceSent)]_vars

(* ======================== claims on STARTTLS ========================== *)

\* C38: once STARTTLS has been accepted (the outcome UpgradeTLS is set) no
\* line received in plaintext is dispatched as a command: the next command
\* dispatched is one read by the receiver built over the TLS channel.
C38_NoPlaintextCommandAfterStartTls ==
    [][Dispatch => conn.outcome # "UpgradeTLS"]_vars

(* =================== claims on a rejected body ======================== *)

\* The last message was rejected for its size and no command has been
\* dispatched since: the line at hand follows the line that was refused.
AfterTooLong == conn.xseq < conn.ln - 1 /\ last_txn.code = 552

\* C39: the line that follows the line at which a body was rejected for its
\* size, which belongs to that body (or is its "."), is not dispatched as a
\* command.
C39_RestOfBodyIsNoCommand == [][Dispatch => ~AfterTooLong]_vars

(* ========================= claims on panics =========================== *)

\* C40: the connection task never panics: whatever the lines of the client
\* and the verdicts of the rules, every command ends in a reply or in an
\* orderly close.
C40_ConnectionNeverPanics == conn.rstate # "panicked"

====
